---- MODULE Spec2Model ----
(***************************************************************************)
(* Model of the conversational state/memory protocol of llm_spider:        *)
(*   - ParserDesignerWindow (src/ui/parser_designer.py): session state,    *)
(*     memory, memory_history, the directive parser and the state machine; *)
(*   - LLMWrapper (src/llm/llm_wrapper.py): memory and its directive       *)
(*     parser.                                                             *)
(* Text is modelled as a sequence of tokens.  A token is a tag, a word, a  *)
(* blank, a newline or a JSON literal; str.find / str.index / slicing are  *)
(* translated to the same operations on token positions.                   *)
(***************************************************************************)
EXTENDS Integers, Sequences, FiniteSets, TLC

(***************************************************************************)
(* Bounds of the model.                                                    *)
(***************************************************************************)
\* A reply is a concatenation of at most MaxSegs pieces.
MaxSegs == 2
\* Loop iterations followed before a directive loop is taken to run forever.
MaxIter == 6
\* Replies are received while memory_history is shorter than MaxHist.
MaxHist == 1

(***************************************************************************)
(* Python dictionaries: functions whose domain is the set of present keys. *)
(***************************************************************************)
EmptyDict == [k \in {} |-> "v1"]

\* dict.update(d) / repeated self.memory[key] = value
\* The value of a local variable: the one element of a one-element set.
Only(S) == CHOOSE x \in S : TRUE

DictUpdate(m, d) ==
  [k \in (DOMAIN m) \cup (DOMAIN d) |-> IF k \in DOMAIN d THEN d[k] ELSE m[k]]

(***************************************************************************)
(* Tokens.                                                                 *)
(***************************************************************************)
Tok(kind, s, d, ks) == [kind |-> kind, s |-> s, d |-> d, ks |-> ks]

Tag(name)  == Tok("tag", name, EmptyDict, <<>>)
Txt(word)  == Tok("txt", word, EmptyDict, <<>>)
WS         == Tok("ws", " ", EmptyDict, <<>>)
NL         == Tok("nl", "\n", EmptyDict, <<>>)
\* JSON literals: an object, an array of strings, a number
Obj(d)     == Tok("obj", "{}", d, <<>>)
Arr(ks)    == Tok("arr", "[]", EmptyDict, ks)
Num(n)     == Tok("num", n, EmptyDict, <<>>)
\* f"[State: {new_state}]"
StateMarker(name) == Tok("marker", name, EmptyDict, <<>>)

IsBlank(t) == t.kind \in {"ws", "nl"}

(***************************************************************************)
(* Python string operations on token sequences.                            *)
(***************************************************************************)
\* tag in content
Contains(text, name) == \E i \in 1..Len(text) : text[i] = Tag(name)

\* content.find(tag) / content.index(tag): 0-based position of the first
\* occurrence (only used where Contains holds)
Find(text, name) ==
  (CHOOSE i \in 1..Len(text) :
      /\ text[i] = Tag(name)
      /\ \A j \in 1..(i-1) : text[j] # Tag(name)) - 1

\* content[a:b] for 0 <= a, 0 <= b (b is clamped to the length; a >= b
\* yields the empty string)
Slice(text, a, b) ==
  LET hi == IF b > Len(text) THEN Len(text) ELSE b
  IN  IF a >= hi THEN <<>> ELSE SubSeq(text, a + 1, hi)

\* content[:b]
Upto(text, b) == Slice(text, 0, b)

\* content[a:]
From(text, a) == Slice(text, a, Len(text))

RECURSIVE LStrip(_)
LStrip(text) ==
  IF text # <<>> /\ IsBlank(Head(text)) THEN LStrip(Tail(text)) ELSE text

RECURSIVE RStrip(_)
RStrip(text) ==
  IF text # <<>> /\ IsBlank(text[Len(text)])
  THEN RStrip(SubSeq(text, 1, Len(text) - 1))
  ELSE text

\* str.strip()
Strip(text) == RStrip(LStrip(text))

\* A string used as a dictionary key or state name: the word itself; any
\* other text is some string that is neither a memory key nor a state name.
OtherName == "?"
Name(text) ==
  IF Len(text) = 0 THEN ""
  ELSE IF Len(text) = 1 /\ text[1].kind = "txt" THEN text[1].s
  ELSE OtherName

(***************************************************************************)
(* json.loads: surrounding whitespace is ignored; the text must be exactly *)
(* one JSON literal, anything else raises JSONDecodeError.                 *)
(***************************************************************************)
JsonLoads(text) ==
  LET body == Strip(text)
  IN  IF Len(body) = 1 /\ body[1].kind \in {"obj", "arr", "num"}
      THEN [ok |-> TRUE, val |-> body[1]]
      ELSE [ok |-> FALSE, val |-> Num("0")]

(***************************************************************************)
(* The outcome of running a directive parser on a text.                    *)
(*   outcome: "ok" returned, "raised" an exception left the parser,        *)
(*            "hang" a loop did not end within MaxIter iterations.         *)
(*   resolved: the values looked up by the mem_get directives, in order.   *)
(*   log: the entries appended to memory_history.                          *)
(***************************************************************************)
Result(text, mem, has, resolved, log, cur, outcome) ==
  [text |-> text, mem |-> mem, has |-> has, resolved |-> resolved,
   log |-> log, cur |-> cur, outcome |-> outcome]

(***************************************************************************)
(* LLMWrapper: memory.                                                     *)
(***************************************************************************)
\* store_memory that keeps the value of a key already present
store_memory_keep(mem, key, value) ==
  [k \in (DOMAIN mem) \cup {key} |->
     IF k = key /\ k \notin DOMAIN mem THEN value ELSE mem[k]]

\* self.memory[key] = value
store_memory(mem, key, value) ==
  [k \in (DOMAIN mem) \cup {key} |-> IF k = key THEN value ELSE mem[k]]

\* get_memory that returns the whole memory
get_memory_all(mem, keys) == mem

\* result[key] = self.memory[key] for every listed key that is in memory
get_memory(mem, keys) ==
  [k \in {keys[i] : i \in 1..Len(keys)} \cap (DOMAIN mem) |-> mem[k]]

\* self.memory.clear()
clear_memory(mem) == EmptyDict

\* for key, value in memory_data.items(): self.store_memory(key, value)
RECURSIVE StoreItems(_, _, _)
StoreItems(mem, d, todo) ==
  IF todo = {} THEN mem
  ELSE LET key == CHOOSE k \in todo : TRUE
       IN  StoreItems(store_memory(mem, key, d[key]), d, todo \ {key})

(***************************************************************************)
(* LLMWrapper._process_memory_operations                                   *)
(***************************************************************************)
\* while "<mem_set>" in processed_content and "</mem_set>" in ...
RECURSIVE WrapperSetLoop(_, _, _, _)
WrapperSetLoop(text, mem, has, fuel) ==
  IF ~(Contains(text, "<mem_set>") /\ Contains(text, "</mem_set>"))
  THEN Result(text, mem, has, <<>>, <<>>, "", "ok")
  ELSE IF fuel = 0 THEN Result(text, mem, TRUE, <<>>, <<>>, "", "hang")
  ELSE
    LET start == Find(text, "<mem_set>") + 1
        end   == Find(text, "</mem_set>")
        js    == JsonLoads(Slice(text, start, end))
    IN  IF ~js.ok
        THEN \* except json.JSONDecodeError: break
             Result(text, mem, TRUE, <<>>, <<>>, "", "ok")
        ELSE IF js.val.kind # "obj"
        THEN \* memory_data.items() on a list or a number: AttributeError
             Result(text, mem, TRUE, <<>>, <<>>, "", "raised")
        ELSE WrapperSetLoop(Upto(text, start - 1) \o From(text, end + 1),
                            StoreItems(mem, js.val.d, DOMAIN js.val.d),
                            TRUE, fuel - 1)

\* the keys a mem_get payload names
WrapperGetKeys(key_data) ==
  LET js == JsonLoads(key_data)
  IN  IF js.ok /\ js.val.kind = "arr" THEN js.val.ks ELSE <<Name(key_data)>>

\* while "<mem_get>" in processed_content and "</mem_get>" in ...
RECURSIVE WrapperGetLoop(_, _, _, _, _)
WrapperGetLoop(text, mem, has, resolved, fuel) ==
  IF ~(Contains(text, "<mem_get>") /\ Contains(text, "</mem_get>"))
  THEN Result(text, mem, has, resolved, <<>>, "", "ok")
  ELSE IF fuel = 0 THEN Result(text, mem, TRUE, resolved, <<>>, "", "hang")
  ELSE
    LET start    == Find(text, "<mem_get>") + 1
        end      == Find(text, "</mem_get>")
        key_data == Strip(Slice(text, start, end))
        value    == get_memory(mem, WrapperGetKeys(key_data))
        removed  == Upto(text, start - 1) \o From(text, end + 1)
        shown    == IF value # EmptyDict
                    THEN <<Tag("<mem>"), Obj(value), Tag("</mem>"), NL>> \o removed
                    ELSE removed
    IN  WrapperGetLoop(shown, mem, TRUE, Append(resolved, value), fuel - 1)

\* while "<mem>" in processed_content and "</mem>" in processed_content
RECURSIVE WrapperMemLoop(_, _)
WrapperMemLoop(text, fuel) ==
  IF ~(Contains(text, "<mem>") /\ Contains(text, "</mem>"))
  THEN [text |-> text, outcome |-> "ok"]
  ELSE IF fuel = 0 THEN [text |-> text, outcome |-> "hang"]
  ELSE
    LET start == Find(text, "<mem>")
        end   == Find(text, "</mem>") + 1
    IN  WrapperMemLoop(Upto(text, start) \o From(text, end), fuel - 1)

\* processed_content.split("\n")
RECURSIVE SplitLines(_)
SplitLines(text) ==
  IF \A i \in 1..Len(text) : text[i] # NL THEN <<text>>
  ELSE LET i == CHOOSE j \in 1..Len(text) :
                  text[j] = NL /\ \A h \in 1..(j-1) : text[h] # NL
       IN  <<SubSeq(text, 1, i - 1)>> \o SplitLines(SubSeq(text, i + 1, Len(text)))

\* "\n".join(lines)
RECURSIVE JoinLines(_)
JoinLines(lines) ==
  IF Len(lines) = 0 THEN <<>>
  ELSE IF Len(lines) = 1 THEN lines[1]
  ELSE lines[1] \o <<NL>> \o JoinLines(Tail(lines))

\* "\n".join(line for line in text.split("\n") if line.strip()), then .strip()
CleanLines(text) ==
  Strip(JoinLines(SelectSeq(SplitLines(text), LAMBDA line : Strip(line) # <<>>)))

WrapperProcess(content, mem) ==
  Only({ Only({ Only({
      IF m.outcome = "ok"
      THEN Result(CleanLines(m.text), g.mem, g.has, g.resolved, <<>>, "", "ok")
      ELSE Result(m.text, g.mem, g.has, g.resolved, <<>>, "", m.outcome) :
    m \in { IF g.outcome = "ok"
            THEN WrapperMemLoop(g.text, MaxIter)
            ELSE [text |-> g.text, outcome |-> g.outcome] } }) :
    g \in { IF s.outcome = "ok"
            THEN WrapperGetLoop(s.text, s.mem, s.has, <<>>, MaxIter)
            ELSE s } }) :
    s \in { WrapperSetLoop(content, mem, FALSE, MaxIter) } })

(***************************************************************************)
(* ParserDesignerWindow: the state machine.                                *)
(***************************************************************************)
STATE_WAITING_FOR_URL       == "S1"
STATE_FETCHING_HTML         == "S2"
STATE_ANALYZING_CONTENT     == "S3"
STATE_CONFIRMING_EXTRACTION == "S4"
STATE_CREATING_PARSER       == "S5"
STATE_TESTING_PARSER        == "S6"
STATE_FINAL_CONFIRMATION    == "S7"
STATE_RECOVERY              == "RECOVERY"

OrdinaryStates ==
  {STATE_WAITING_FOR_URL, STATE_FETCHING_HTML, STATE_ANALYZING_CONTENT,
   STATE_CONFIRMING_EXTRACTION, STATE_CREATING_PARSER, STATE_TESTING_PARSER,
   STATE_FINAL_CONFIRMATION}

DeclaredStates == OrdinaryStates \cup {STATE_RECOVERY}

state_memory_requirements ==
  [s \in OrdinaryStates |->
     CASE s = STATE_WAITING_FOR_URL       -> {}
       [] s = STATE_FETCHING_HTML         -> {"url"}
       [] s = STATE_ANALYZING_CONTENT     -> {"html"}
       [] s = STATE_CONFIRMING_EXTRACTION -> {"title", "date", "body"}
       [] s = STATE_CREATING_PARSER       -> {"html", "title", "date", "body"}
       [] s = STATE_TESTING_PARSER        -> {"html", "parser_code"}
       [] s = STATE_FINAL_CONFIRMATION    -> {"parsing_result"}]

\* the validation with any() in place of all()
validate_state_transition_any(mem, new_state) ==
  IF new_state \notin DOMAIN state_memory_requirements
  THEN TRUE
  ELSE \E key \in state_memory_requirements[new_state] : key \in DOMAIN mem

validate_state_transition(mem, new_state) ==
  IF new_state \notin DOMAIN state_memory_requirements
  THEN TRUE
  ELSE \A key \in state_memory_requirements[new_state] : key \in DOMAIN mem

\* the new current_state and the returned flag
handle_state_transition(mem, new_state) ==
  IF ~validate_state_transition(mem, new_state)
  THEN [state |-> STATE_RECOVERY, ret |-> FALSE]
  ELSE [state |-> new_state, ret |-> TRUE]

(***************************************************************************)
(* ParserDesignerWindow._process_memory_operations                         *)
(***************************************************************************)
\* entries of memory_history: ("set", mem_data) and ("state_change", state)
SetEntry(d)         == [kind |-> "set", d |-> d, s |-> ""]
StateChangeEntry(s) == [kind |-> "state_change", d |-> EmptyDict, s |-> s]

\* mem_op[9:-10], state_op[7:-8]: the text between the two tags; the empty
\* string when mem_op is empty
Inner(mem_op) ==
  IF Len(mem_op) >= 2 THEN SubSeq(mem_op, 2, Len(mem_op) - 1) ELSE <<>>

\* mem_op[13:-14] of "<mem_validate>...</mem_validate>": the opening tag has
\* 14 characters and the closing tag 15, so the slice keeps the last
\* character of the opening tag and the first of the closing tag
ValidateInner(mem_op) ==
  IF Len(mem_op) >= 2
  THEN <<Txt(">")>> \o SubSeq(mem_op, 2, Len(mem_op) - 1) \o <<Txt("<")>>
  ELSE <<>>

\* self.memory.update(mem_data) succeeds: a dict, or a sequence of pairs
\* (of the arrays of key strings only the empty one is such a sequence)
UpdateAccepts(val) ==
  \/ val.kind = "obj"
  \/ val.kind = "arr" /\ Len(val.ks) = 0

RECURSIVE WindowSetLoop(_, _, _, _, _)
WindowSetLoop(text, mem, has, log, fuel) ==
  IF ~(Contains(text, "<mem_set>") /\ Contains(text, "</mem_set>"))
  THEN Result(text, mem, has, <<>>, log, "", "ok")
  ELSE IF fuel = 0 THEN Result(text, mem, TRUE, <<>>, log, "", "hang")
  ELSE
    LET start  == Find(text, "<mem_set>")
        end    == Find(text, "</mem_set>") + 1
        mem_op == Slice(text, start, end)
        js     == JsonLoads(Inner(mem_op))
        rest   == Upto(text, start) \o From(text, end)
    IN  IF ~js.ok
        THEN \* except json.JSONDecodeError: logged
             WindowSetLoop(rest, mem, TRUE, log, fuel - 1)
        ELSE IF ~UpdateAccepts(js.val)
        THEN \* dict.update raises TypeError / ValueError
             Result(text, mem, TRUE, <<>>, log, "", "raised")
        ELSE WindowSetLoop(rest, DictUpdate(mem, js.val.d), TRUE,
                           Append(log, SetEntry(js.val.d)), fuel - 1)

\* the lookup that always yields the default ""
WindowGetValue_default(mem, key) ==
  IF key = "all" THEN <<Obj(mem)>> ELSE <<>>

\* json.dumps(self.memory, indent=2) for the key "all",
\* str(self.memory.get(key, "")) otherwise
WindowGetValue(mem, key) ==
  IF key = "all" THEN <<Obj(mem)>>
  ELSE IF key \in DOMAIN mem THEN <<Txt(mem[key])>>
  ELSE <<>>

RECURSIVE WindowGetLoop(_, _, _, _, _)
WindowGetLoop(text, mem, has, resolved, fuel) ==
  IF ~(Contains(text, "<mem_get>") /\ Contains(text, "</mem_get>"))
  THEN Result(text, mem, has, resolved, <<>>, "", "ok")
  ELSE IF fuel = 0 THEN Result(text, mem, TRUE, resolved, <<>>, "", "hang")
  ELSE
    LET start  == Find(text, "<mem_get>")
        end    == Find(text, "</mem_get>") + 1
        mem_op == Slice(text, start, end)
        key    == Name(Strip(Inner(mem_op)))
        value  == WindowGetValue(mem, key)
    IN  WindowGetLoop(Upto(text, start) \o value \o From(text, end),
                      mem, TRUE, Append(resolved, value), fuel - 1)

\* the replacement texts of mem_validate
MissingMessage(missing_keys) ==
  Tok("missing", "Missing required memory: ", EmptyDict, missing_keys)
PassedMessage == Tok("passed", "Memory validation passed", EmptyDict, <<>>)

\* iterating the parsed value: the elements of a list, the keys of a dict
RECURSIVE SetToSeq(_)
SetToSeq(S) ==
  IF S = {} THEN <<>>
  ELSE LET x == CHOOSE y \in S : TRUE IN <<x>> \o SetToSeq(S \ {x})

RequiredKeys(val) ==
  IF val.kind = "arr" THEN val.ks ELSE SetToSeq(DOMAIN val.d)

RECURSIVE WindowValidateLoop(_, _, _, _)
WindowValidateLoop(text, mem, has, fuel) ==
  IF ~(Contains(text, "<mem_validate>") /\ Contains(text, "</mem_validate>"))
  THEN Result(text, mem, has, <<>>, <<>>, "", "ok")
  ELSE IF fuel = 0 THEN Result(text, mem, TRUE, <<>>, <<>>, "", "hang")
  ELSE
    LET start  == Find(text, "<mem_validate>")
        end    == Find(text, "</mem_validate>") + 1
        mem_op == Slice(text, start, end)
        js     == JsonLoads(ValidateInner(mem_op))
        missing_keys ==
          SelectSeq(RequiredKeys(js.val), LAMBDA key : key \notin DOMAIN mem)
        replaced ==
          IF missing_keys # <<>>
          THEN Upto(text, start) \o <<MissingMessage(missing_keys)>> \o From(text, end)
          ELSE Upto(text, start) \o <<PassedMessage>> \o From(text, end)
    IN  IF ~js.ok
        THEN \* except json.JSONDecodeError: logged; the tag is cut out
             WindowValidateLoop(Upto(text, start) \o From(text, end),
                                mem, TRUE, fuel - 1)
        ELSE IF js.val.kind = "num"
        THEN \* iterating a number: TypeError
             Result(text, mem, TRUE, <<>>, <<>>, "", "raised")
        ELSE \* the unconditional cut after the try block, with the old
             \* start and end, applied to the replaced text
             WindowValidateLoop(Upto(replaced, start) \o From(replaced, end),
                                mem, TRUE, fuel - 1)

RECURSIVE WindowStateLoop(_, _, _, _, _)
WindowStateLoop(text, cur, has, log, fuel) ==
  IF ~(Contains(text, "<state>") /\ Contains(text, "</state>"))
  THEN Result(text, EmptyDict, has, <<>>, log, cur, "ok")
  ELSE IF fuel = 0 THEN Result(text, EmptyDict, TRUE, <<>>, log, cur, "hang")
  ELSE
    LET start     == Find(text, "<state>")
        end       == Find(text, "</state>") + 1
        state_op  == Slice(text, start, end)
        new_state == Name(Strip(Inner(state_op)))
        marked    == Upto(text, start) \o <<StateMarker(new_state)>> \o From(text, end)
    IN  IF new_state # cur
        THEN WindowStateLoop(marked, new_state, TRUE,
                             Append(log, StateChangeEntry(new_state)), fuel - 1)
        ELSE WindowStateLoop(marked, cur, TRUE, log, fuel - 1)

WindowProcess(content, mem, cur) ==
  Only({ Only({ Only({ Only({
      Result(t.text, s.mem, t.has, g.resolved,
             IF v.outcome = "ok" THEN t.log ELSE s.log, t.cur, t.outcome) :
    t \in { IF v.outcome = "ok"
            THEN WindowStateLoop(v.text, cur, v.has, s.log, MaxIter)
            ELSE [v EXCEPT !.cur = cur] } }) :
    v \in { IF g.outcome = "ok"
            THEN WindowValidateLoop(g.text, g.mem, g.has, MaxIter)
            ELSE g } }) :
    g \in { IF s.outcome = "ok"
            THEN WindowGetLoop(s.text, s.mem, s.has, <<>>, MaxIter)
            ELSE s } }) :
    s \in { WindowSetLoop(content, mem, FALSE, <<>>, MaxIter) } })

(***************************************************************************)
(* State.  One session object: a ParserDesignerWindow or an LLMWrapper.    *)
(***************************************************************************)
VARIABLES
  session,         \* "ParserDesignerWindow" or "LLMWrapper"
  current_state,   \* self.current_state (window)
  memory,          \* self.memory
  memory_history,  \* self.memory_history (window)
  pc,              \* "idle", "pending" (a reply is to be processed),
                   \* "done" (the call has produced its results), "hung"
  reply,           \* the raw text of the reply being processed
  content,         \* the cleaned text returned by the directive parser
  has_memory_ops,  \* the flag returned by the directive parser
  resolved,        \* the values looked up by mem_get, in order
  outcome,         \* "ok", "raised", "hang" of the last call
  ret,             \* the value returned by _handle_state_transition
  target,          \* the argument of the last _handle_state_transition
  prev_memory,     \* memory when the last call started
  prev_state,      \* current_state when the last call started
  last_op          \* "init", "receive", "process", "transition"

\* LLMWrapper.chat and the window's conversation loop
VARIABLES
  history,         \* self.history (wrapper) / chat_widget.history (window)
  prev_history,    \* history when the turn started
  user_input,      \* the user's text of the running chat
  focus_mode,      \* the focus mode in use
  stream,          \* the caller's stream option of the running chat
  calls,           \* the call_llm invocations of the turn, in order
  delivered,       \* what the caller has received from chat so far
  chunks,          \* content_chunks of process_stream
  messages,        \* the message list built by _prepare_messages
  max_history_tokens, \* self.max_history_tokens
  max_tokens,      \* the value of _get_max_tokens()
  threads,         \* the running StreamProcessor threads
  round_trips,     \* tool dispatches followed by a new call, this turn
  origin           \* the call whose reply the last handled signal is from

\* FunctionManager
VARIABLES
  functions,       \* FunctionManager._functions (class level)
  fn_name,         \* the function name of the last dispatch
  fn_args,         \* the arguments of the last dispatch
  fn_result,       \* the value returned by execute_function
  executed         \* the names whose execute body has run in the last call

\* several sessions side by side
VARIABLES
  heap,            \* the dict and list objects, by reference
  sessions,        \* per session: the references its fields hold
  acted            \* the session the last operation was called on

\* the services around a session
VARIABLES
  options,         \* the stored defaults of a wrapper, the options given to
                   \* its last chat call and what that call passed on
  html_content,    \* self.html_content: "" or the page
  parser_config,   \* self.parser_config: "" ({}) or a configuration
  fetching,        \* PlaywrightControllers that have not delivered yet
  record           \* chat_data of the parser record in the database

chat_vars == <<history, prev_history, user_input, focus_mode, stream, calls,
               delivered, chunks, messages, max_history_tokens, max_tokens, threads,
               round_trips, origin>>

dispatch_vars == <<functions, fn_name, fn_args, fn_result, executed>>

sessions_vars == <<heap, sessions, acted>>

service_vars == <<options, html_content, parser_config, fetching, record>>

\* the LLMWorker taken alone
VARIABLES
  is_running,      \* self.is_running
  emitted          \* the signals emitted so far, oldest first

worker_vars == <<is_running, emitted>>

\* FunctionManager's class-level registry, by name
VARIABLES
  registered,      \* FunctionManager._functions: name -> function class
  initialized,     \* FunctionManager._initialized
  registrations    \* the register calls made so far, oldest first

registry_vars == <<registered, initialized, registrations>>

\* the chat widget of the window
VARIABLE
  is_processing    \* chat_widget.is_processing: the input is disabled

tool_vars == <<html_content, parser_config, fetching, record>>

object_vars == <<session, current_state, memory, memory_history, pc, reply,
                 content, has_memory_ops, resolved, outcome, ret, target,
                 prev_memory, prev_state, last_op>>

vars == <<object_vars, chat_vars, dispatch_vars, sessions_vars, service_vars, worker_vars, registry_vars, is_processing>>

\* No chat is running, no function has been dispatched, no second session.
NoChat ==
  /\ history = <<>>
  /\ prev_history = <<>>
  /\ user_input = <<>>
  /\ focus_mode = FALSE
  /\ stream = FALSE
  /\ calls = <<>>
  /\ delivered = <<>>
  /\ chunks = <<>>
  /\ messages = <<>>
  /\ max_history_tokens = 0
  /\ max_tokens = 0
  /\ threads = <<>>
  /\ round_trips = 0
  /\ origin = 0

NoDispatch ==
  /\ functions = {}
  /\ fn_name = ""
  /\ fn_args = <<>>
  /\ fn_result = <<>>
  /\ executed = {}

NoSessions ==
  /\ heap = <<>>
  /\ sessions = <<>>
  /\ acted = 0

NoWorker == is_running = FALSE /\ emitted = <<>>

NoRegistry == registered = <<>> /\ initialized = FALSE /\ registrations = <<>>

NoWidget == is_processing = FALSE

NoService ==
  /\ options = <<>>
  /\ html_content = ""
  /\ parser_config = ""
  /\ fetching = 0
  /\ record = <<>>

Window  == "ParserDesignerWindow"
Wrapper == "LLMWrapper"

(***************************************************************************)
(* Replies of the LLM: concatenations of at most MaxSegs pieces.           *)
(***************************************************************************)
Directive(open, payload, close) == <<Tag(open)>> \o payload \o <<Tag(close)>>
MemSet(payload)      == Directive("<mem_set>", payload, "</mem_set>")
MemGet(payload)      == Directive("<mem_get>", payload, "</mem_get>")
MemValidate(payload) == Directive("<mem_validate>", payload, "</mem_validate>")
StateTag(payload)    == Directive("<state>", payload, "</state>")
MemBlock(payload)    == Directive("<mem>", payload, "</mem>")

UrlOnly    == [k \in {"url"} |-> "v1"]
UrlAndHtml == [k \in {"url", "html"} |-> IF k = "url" THEN "v2" ELSE "v1"]

Pieces ==
  { <<Txt("hi")>>, <<WS>>, <<NL>>,
    MemSet(<<Obj(UrlOnly)>>), MemSet(<<Obj(UrlAndHtml)>>),
    MemSet(<<Txt("oops")>>), MemSet(<<Num("42")>>),
    MemGet(<<Txt("url")>>), MemGet(<<Arr(<<"url", "html">>)>>),
    MemValidate(<<Arr(<<"url", "html">>)>>),
    StateTag(<<Txt(STATE_ANALYZING_CONTENT)>>), StateTag(<<Txt("DONE")>>),
    MemBlock(<<Obj(UrlOnly)>>),
    <<Tag("</mem_get>"), Tag("<mem_get>")>> }

RECURSIVE Concats(_)
Concats(n) ==
  IF n = 0 THEN {<<>>}
  ELSE LET shorter == Concats(n - 1)
       IN  shorter \cup {r \o p : r \in shorter, p \in Pieces}

Replies == Concats(MaxSegs)

(***************************************************************************)
(* Construction.                                                           *)
(***************************************************************************)
\* chat_data["memory"] of the records that can be opened for editing
SavedMemories ==
  { EmptyDict, [k \in {"html", "title", "date", "body"} |-> "v1"] }

\* memory.update({"url": ..., "parser_code": ..., "parser_type": ...})
ParserData ==
  [k \in {"url", "parser_code", "parser_type"} |->
     CASE k = "url" -> "pat" [] k = "parser_code" -> "cfg"
       [] k = "parser_type" -> "custom_parser"]

\* ParserDesignerWindow.__init__ followed by _initialize_chat:
\*   edit        a record was found for parser_id
\*   saved       its chat_data memory, saved_state its chat_data state
\*   json_ok     json.loads(self.parser.parser) succeeds
\*   url_given   the url argument is set
\*   has_history the loaded chat history holds a non-system message
WindowConstruct(edit, saved, saved_state, json_ok, url_given, has_history) ==
  LET m0 == IF edit THEN saved ELSE EmptyDict
      c0 == IF edit THEN saved_state ELSE STATE_WAITING_FOR_URL
      m1 == IF edit /\ json_ok THEN DictUpdate(m0, ParserData) ELSE m0
      c1 == IF ~edit THEN c0
            ELSE IF ~json_ok THEN handle_state_transition(m1, STATE_RECOVERY).state
            ELSE IF url_given
                 THEN handle_state_transition(m1, STATE_FETCHING_HTML).state
                 ELSE handle_state_transition(m1, STATE_CREATING_PARSER).state
      fresh_url == url_given /\ ~edit
      m2 == IF fresh_url THEN store_memory(m1, "url", "v1") ELSE m1
      c2 == IF fresh_url
            THEN handle_state_transition(m2, STATE_FETCHING_HTML).state
            ELSE IF ~has_history
                 THEN handle_state_transition(m2, STATE_WAITING_FOR_URL).state
                 ELSE c1
  IN  [state |-> c2, memory |-> m2]

\* the ways a window is opened (a new session has no loaded history)
Openings ==
  { a \in [edit : BOOLEAN, saved : SavedMemories,
           saved_state : {STATE_WAITING_FOR_URL, STATE_FINAL_CONFIRMATION},
           json_ok : BOOLEAN, url_given : BOOLEAN, has_history : BOOLEAN] :
      a.has_history => a.edit }

WindowStarts ==
  { WindowConstruct(a.edit, a.saved, a.saved_state, a.json_ok, a.url_given,
                    a.has_history) : a \in Openings }

Quiet ==
  /\ pc = "idle"
  /\ reply = <<>>
  /\ content = <<>>
  /\ has_memory_ops = FALSE
  /\ resolved = <<>>
  /\ outcome = "ok"
  /\ ret = TRUE
  /\ target = ""
  /\ last_op = "init"

Init ==
  /\ \/ /\ session = Window
        /\ \E w \in WindowStarts :
             /\ current_state = w.state
             /\ memory = w.memory
     \/ /\ session = Wrapper
        /\ current_state = ""
        /\ memory = EmptyDict
  /\ memory_history = <<>>
  /\ prev_memory = memory
  /\ prev_state = current_state
  /\ Quiet
  /\ NoChat /\ NoDispatch /\ NoSessions /\ NoService /\ NoWorker /\ NoRegistry /\ NoWidget

(***************************************************************************)
(* Actions.                                                                *)
(***************************************************************************)
\* The LLM's reply arrives (response_received is emitted / the reply of
\* client.call_llm is handed to the directive parser).
Receive(r) ==
  /\ pc = "idle"
  /\ Len(memory_history) < MaxHist
  /\ pc' = "pending"
  /\ reply' = r
  /\ content' = <<>>
  /\ has_memory_ops' = FALSE
  /\ resolved' = <<>>
  /\ outcome' = "ok"
  /\ ret' = TRUE
  /\ target' = ""
  /\ prev_memory' = memory
  /\ prev_state' = current_state
  /\ last_op' = "receive"
  /\ UNCHANGED <<session, current_state, memory, memory_history>>
  /\ UNCHANGED <<chat_vars, dispatch_vars, sessions_vars, service_vars, worker_vars, registry_vars, is_processing>>

Finish(r) ==
  /\ memory' = r.mem
  /\ content' = IF r.outcome = "ok" THEN r.text ELSE <<>>
  /\ has_memory_ops' = r.has
  /\ resolved' = r.resolved
  /\ outcome' = r.outcome
  /\ pc' = IF r.outcome = "hang" THEN "hung" ELSE "done"
  /\ prev_memory' = memory
  /\ prev_state' = current_state
  /\ last_op' = "process"
  /\ UNCHANGED <<session, reply, ret, target>>
  /\ UNCHANGED <<chat_vars, dispatch_vars, sessions_vars, service_vars, worker_vars, registry_vars, is_processing>>

\* ParserDesignerWindow.on_llm_response
OnLLMResponse ==
  /\ session = Window
  /\ pc = "pending"
  /\ \E r \in {WindowProcess(reply, memory, current_state)} :
       /\ Finish(r)
       /\ current_state' = r.cur
       /\ memory_history' = memory_history \o r.log

\* LLMWrapper._process_memory_operations
ProcessMemoryOperations ==
  /\ session = Wrapper
  /\ pc = "pending"
  /\ \E r \in {WrapperProcess(reply, memory)} : Finish(r)
  /\ UNCHANGED <<current_state, memory_history>>

\* The call returns to its caller: its arguments, locals and results are
\* gone, the object's fields stay.
Return ==
  /\ pc = "done"
  /\ pc' = "idle"
  /\ reply' = <<>>
  /\ content' = <<>>
  /\ has_memory_ops' = FALSE
  /\ resolved' = <<>>
  /\ outcome' = "ok"
  /\ ret' = TRUE
  /\ target' = ""
  /\ prev_memory' = memory
  /\ prev_state' = current_state
  /\ last_op' = "init"
  /\ UNCHANGED <<session, current_state, memory, memory_history>>
  /\ UNCHANGED <<chat_vars, dispatch_vars, sessions_vars, service_vars, worker_vars, registry_vars, is_processing>>

Next ==
  \/ \E r \in Replies : Receive(r)
  \/ OnLLMResponse
  \/ ProcessMemoryOperations
  \/ Return

Spec == Init /\ [][Next]_vars

(***************************************************************************)
(* The state machine on its own: _handle_state_transition applied to every *)
(* target in every memory content.  Any memory content and any declared    *)
(* state can be produced by earlier mem_set and state directives, so the   *)
(* initial states range over all of them.                                  *)
(***************************************************************************)
AllRequiredKeys == UNION {state_memory_requirements[s] : s \in OrdinaryStates}

AllMemories == {[k \in D |-> "v1"] : D \in SUBSET AllRequiredKeys}

\* the declared states and a name that is none of them
Targets == DeclaredStates \cup {"DONE"}

InitTransition ==
  /\ session = Window
  /\ current_state \in DeclaredStates
  /\ memory \in AllMemories
  /\ memory_history = <<>>
  /\ prev_memory = memory
  /\ prev_state = current_state
  /\ Quiet
  /\ NoChat /\ NoDispatch /\ NoSessions /\ NoService /\ NoWorker /\ NoRegistry /\ NoWidget

\* ParserDesignerWindow._handle_state_transition(new_state)
HandleStateTransition(new_state) ==
  /\ session = Window
  /\ pc = "idle"
  /\ LET h == handle_state_transition(memory, new_state)
     IN  /\ current_state' = h.state
         /\ ret' = h.ret
  /\ target' = new_state
  /\ outcome' = "ok"
  /\ prev_memory' = memory
  /\ prev_state' = current_state
  /\ last_op' = "transition"
  /\ UNCHANGED <<session, memory, memory_history, pc, reply, content,
                 has_memory_ops, resolved>>
  /\ UNCHANGED <<chat_vars, dispatch_vars, sessions_vars, service_vars, worker_vars, registry_vars, is_processing>>

NextTransition == \E new_state \in Targets : HandleStateTransition(new_state)

SpecTransition == InitTransition /\ [][NextTransition]_vars

(***************************************************************************)
(* LLMWrapper: token counting and _prepare_messages.                       *)
(*                                                                         *)
(* A message is a record [role, content, memory_state]; memory_state is    *)
(* <<>> where the dict has no such key and <<m>> where it holds the dump   *)
(* of m.  Every token of a text stands for four characters, which          *)
(* _estimate_tokens counts as one token.                                   *)
(***************************************************************************)
MaxLog == 2        \* entries of history and of memory_history drawn
MaxTurns == 1      \* chat turns of one wrapper

tokens_per_message == 4
reserved_tokens == 500

Msg(role, text, state) ==
  [role |-> role, content |-> text, memory_state |-> state]

\* _estimate_tokens, on a text of Len(text) four-character tokens
estimate_tokens(text) == Len(text) + tokens_per_message

\* _count_tokens: the sum over the messages
RECURSIVE count_tokens(_)
count_tokens(msgs) ==
  IF msgs = <<>> THEN 0
  ELSE estimate_tokens(Head(msgs).content) + count_tokens(Tail(msgs))

system_prompt == <<Txt("system_prompt")>>

\* the system-role block that renders the memory
memory_context(mem) ==
  Msg("system",
      <<Txt("Current memory state:"), Tag("<mem>"), Obj(mem), Tag("</mem>"),
        Txt("CRITICAL REMINDER")>>,
      <<>>)

\* {"role": .., "content": .., "memory_state": json.dumps(msg.get(..))}
WithState(msg) ==
  Msg(msg.role, msg.content,
      IF msg.memory_state = <<>> THEN <<EmptyDict>> ELSE msg.memory_state)

RECURSIVE WithStates(_)
WithStates(msgs) ==
  IF msgs = <<>> THEN <<>>
  ELSE <<WithState(Head(msgs))>> \o WithStates(Tail(msgs))

\* the loop as it would be without its token test: every entry is kept
HistoryWindow_all(hist, i, token_count, remaining_tokens, acc) ==
  WithStates(SubSeq(hist, 1, i)) \o acc

\* for msg in reversed(self.history): the loop from entry i down, with the
\* messages kept so far in acc
RECURSIVE HistoryWindow(_, _, _, _, _)
HistoryWindow(hist, i, token_count, remaining_tokens, acc) ==
  IF i = 0 THEN acc
  ELSE LET msg_tokens == count_tokens(<<hist[i]>>)
       IN  IF token_count + msg_tokens <= remaining_tokens
           THEN HistoryWindow(hist, i - 1, token_count + msg_tokens,
                              remaining_tokens, <<WithState(hist[i])>> \o acc)
           ELSE acc

Min(a, b) == IF a <= b THEN a ELSE b

focus_instructions == "decline what is off topic"

\* the user turn as it would be if focus mode were ignored
user_content_plain(input, focus) == input

\* json.dumps(focus_wrapper) when focus_mode, the input itself otherwise
user_content(input, focus) ==
  IF focus
  THEN <<Obj([k \in {"user_input", "instructions"} |->
               IF k = "user_input" THEN Name(input)
               ELSE focus_instructions])>>
  ELSE input

\* _prepare_messages as it would be without its final append
prepare_messages_skip_user(hist, mem, mem_hist, budget, limit, input, focus) ==
  LET base == <<Msg("system", system_prompt, <<>>)>>
              \o (IF mem # EmptyDict THEN <<memory_context(mem)>> ELSE <<>>)
              \o WithStates(mem_hist)
      token_count == count_tokens(base)
      remaining_tokens == Min(budget, limit - token_count - reserved_tokens)
  IN  base \o HistoryWindow(hist, Len(hist), token_count, remaining_tokens,
                            <<>>)

prepare_messages(hist, mem, mem_hist, budget, limit, input, focus) ==
  LET base == <<Msg("system", system_prompt, <<>>)>>
              \o (IF mem # EmptyDict THEN <<memory_context(mem)>> ELSE <<>>)
              \o WithStates(mem_hist)
      token_count == count_tokens(base)
      remaining_tokens == Min(budget, limit - token_count - reserved_tokens)
  IN  base
      \o HistoryWindow(hist, Len(hist), token_count, remaining_tokens, <<>>)
      \o <<Msg("user", user_content(input, focus), <<mem>>)>>

\* chat, lines 551-552, as it would be if the messages of the second call
\* were the ones prepared before the first
second_messages_stale(hist, before, after, mem_hist, budget, limit, input, focus) ==
  prepare_messages(hist, before, mem_hist, budget, limit, input, focus)

\* chat, lines 551-552: messages = self._prepare_messages(...) once the
\* directives of the first reply have turned the store before into after
second_messages(hist, before, after, mem_hist, budget, limit, input, focus) ==
  prepare_messages(hist, after, mem_hist, budget, limit, input, focus)

\* what a user may type
UserInputs == { <<Txt("q1")>>, <<Txt("q2")>> }

\* entries as chat leaves them in self.history and self.memory_history
LogEntries ==
  { Msg("user", <<Txt("q1")>>, <<EmptyDict>>),
    Msg("assistant", <<Txt("hi")>>, <<EmptyDict>>),
    Msg("assistant", <<Txt("hi"), WS, Txt("hi")>>, <<UrlOnly>>) }

RECURSIVE Logs(_)
Logs(n) ==
  IF n = 0 THEN {<<>>}
  ELSE LET shorter == Logs(n - 1)
       IN  shorter \cup {l \o <<e>> : l \in shorter, e \in LogEntries}

\* max_history_tokens as the constructor may be given it (4000 by default)
Budgets == {0, 10, 17, 4000}
\* _get_max_tokens(): litellm's answer, or a built-in default
Limits == {510, 520, 4000, 8192}

InitMessages ==
  /\ session = Wrapper
  /\ current_state = ""
  /\ memory \in {EmptyDict, UrlOnly}
  /\ history \in Logs(MaxLog)
  /\ memory_history \in {l \in Logs(MaxLog - 1) : l # <<>> => history # <<>>}
  /\ max_history_tokens \in Budgets
  /\ max_tokens \in Limits
  /\ prev_memory = memory
  /\ prev_state = current_state
  /\ prev_history = history
  /\ Quiet
  /\ user_input = <<>> /\ focus_mode = FALSE /\ stream = FALSE
  /\ calls = <<>> /\ delivered = <<>> /\ chunks = <<>> /\ messages = <<>>
  /\ threads = <<>> /\ round_trips = 0 /\ origin = 0
  /\ NoDispatch /\ NoSessions /\ NoService /\ NoWorker /\ NoRegistry /\ NoWidget

\* LLMWrapper._prepare_messages(user_input, focus_mode)
PrepareMessages(input, focus) ==
  /\ pc = "idle"
  /\ messages' = prepare_messages(history, memory, memory_history,
                                  max_history_tokens, max_tokens, input, focus)
  /\ user_input' = input
  /\ focus_mode' = focus
  /\ last_op' = "prepare"
  /\ UNCHANGED <<session, current_state, memory, memory_history, pc, reply,
                 content, has_memory_ops, resolved, outcome, ret, target,
                 prev_memory, prev_state>>
  /\ UNCHANGED <<history, prev_history, stream, calls, delivered, chunks,
                 max_history_tokens, max_tokens, threads, round_trips,
                 origin>>
  /\ UNCHANGED <<dispatch_vars, sessions_vars, service_vars, worker_vars, registry_vars, is_processing>>

NextMessages ==
  \E input \in UserInputs, focus \in BOOLEAN : PrepareMessages(input, focus)

SpecMessages == InitMessages /\ [][NextMessages]_vars

(***************************************************************************)
(* Function dispatch: Function.__call__, FunctionManager, FunctionExecutor.*)
(*                                                                         *)
(* Arguments are a dict from argument names to the kind of value given     *)
(* ("str", "int", "dict").  A result is a record [kind, text]: kind is     *)
(* "error" for {"error": text} and "result" for what an execute body       *)
(* returns.                                                                *)
(***************************************************************************)
\* the Function subclasses of the functions package that discovery imports
FunctionClasses ==
  {"fetch_webpage", "get_weather", "parse_webpage", "parse_with_parser",
   "test_function"}

\* the classes that define an InputModel
WithInputModel ==
  {"fetch_webpage", "get_weather", "parse_webpage", "test_function"}

\* InputModel: the fields declared with Field(...), i.e. required
RequiredFields(name) ==
  CASE name = "fetch_webpage" -> {"url"}
    [] name = "get_weather"   -> {"location"}
    [] name = "parse_webpage" -> {"url", "state", "action"}
    [] name = "test_function" -> {"message"}
    [] OTHER                  -> {}

\* InputModel: the declared type of each field
FieldTypes(name) ==
  CASE name = "fetch_webpage" -> [f \in {"url"} |-> "str"]
    [] name = "get_weather"   -> [f \in {"location", "unit"} |-> "str"]
    [] name = "parse_webpage" ->
         [f \in {"url", "state", "action", "parser_config"} |->
            IF f = "parser_config" THEN "dict" ELSE "str"]
    [] name = "test_function" ->
         [f \in {"message", "repeat", "prefix"} |->
            IF f = "repeat" THEN "int" ELSE "str"]
    [] OTHER                  -> EmptyDict

Error(text)  == [kind |-> "error", text |-> text]
Returned(name) == [kind |-> "result", text |-> <<name>>]

\* self.InputModel(**kwargs) accepting whatever it is given
validate_input_any(name, args) == TRUE

\* the type of an argument value: "int" and "dict" stand for some integer
\* and some dictionary, every other value is a string
TypeOf(v) == IF v \in {"int", "dict"} THEN v ELSE "str"

\* self.InputModel(**kwargs): every required field is given, every given
\* field that is declared has a value of its type; other names are ignored
validate_input(name, args) ==
  /\ RequiredFields(name) \subseteq DOMAIN args
  /\ \A f \in DOMAIN args \cap DOMAIN FieldTypes(name) :
       TypeOf(args[f]) = FieldTypes(name)[f]

\* Function.__call__: [result, ran]; "raised" stands for the ValueError
call(name, args) ==
  IF name \notin WithInputModel
  THEN [result |-> Error(<<"Function", name, "must define an InputModel">>),
        ran |-> {}, raised |-> TRUE]
  ELSE IF validate_input(name, args)
       THEN [result |-> Returned(name), ran |-> {name}, raised |-> FALSE]
       ELSE [result |-> Error(<<"validation error for", name>>),
             ran |-> {}, raised |-> FALSE]

\* FunctionManager.execute_function and execute_tool_call: the exception of
\* __call__ is caught and its text returned
execute_function(registry, name, args) ==
  IF name \notin registry
  THEN [result |-> Error(<<"Function", name, "not found">>), ran |-> {}]
  ELSE LET c == call(name, args)
       IN  [result |-> c.result, ran |-> c.ran]

\* the names FunctionExecutor.execute_function knows
ExecutorNames ==
  {"fetch_webpage", "create_list_parser", "create_content_parser",
   "parse_with_parser"}

\* FunctionExecutor.execute_function
executor_execute_function(parser_designer, name, args) ==
  IF ~parser_designer
  THEN [result |-> Error(<<"Parser designer not initialized">>), ran |-> {}]
  ELSE IF name \in ExecutorNames
       THEN [result |-> Returned(name), ran |-> {name}]
       ELSE [result |-> Error(<<"Unknown function:", name>>), ran |-> {}]

\* what the LLM may ask for
FunctionNames == FunctionClasses \cup {"nonexistent_fn", "create_list_parser"}

Args(fields, kind) == [f \in fields |-> kind]

ArgDicts ==
  { EmptyDict,
    Args({"url"}, "str"), Args({"url"}, "int"),
    Args({"location"}, "str"), Args({"location", "unit"}, "str"),
    Args({"message"}, "str"),
    [f \in {"message", "repeat"} |-> IF f = "repeat" THEN "int" ELSE "str"],
    Args({"message", "repeat"}, "str"),
    Args({"url", "state", "action"}, "str"),
    Args({"url", "state"}, "str"),
    [f \in {"url", "parser_config"} |->
       IF f = "url" THEN "str" ELSE "dict"],
    Args({"url", "other"}, "str") }

InitDispatch ==
  /\ session = Window
  /\ current_state = STATE_WAITING_FOR_URL
  /\ memory = EmptyDict
  /\ memory_history = <<>>
  /\ prev_memory = memory
  /\ prev_state = current_state
  /\ Quiet
  /\ NoChat /\ NoDispatch /\ NoSessions /\ NoService /\ NoWorker /\ NoRegistry /\ NoWidget

Dispatched(name, args, r, op) ==
  /\ fn_name' = name
  /\ fn_args' = args
  /\ fn_result' = r.result
  /\ executed' = r.ran
  /\ outcome' = "ok"
  /\ last_op' = op
  /\ UNCHANGED <<session, current_state, memory, memory_history, pc, reply,
                 content, has_memory_ops, resolved, ret, target, prev_memory,
                 prev_state>>
  /\ UNCHANGED <<chat_vars, sessions_vars, service_vars, worker_vars, registry_vars, is_processing>>

\* FunctionManager.__init__ / get_all_schemas: discover_functions registers
\* every class of the package once
DiscoverFunctions ==
  /\ functions = {}
  /\ functions' = FunctionClasses
  /\ last_op' = "discover"
  /\ UNCHANGED <<session, current_state, memory, memory_history, pc, reply,
                 content, has_memory_ops, resolved, outcome, ret, target,
                 prev_memory, prev_state>>
  /\ UNCHANGED <<fn_name, fn_args, fn_result, executed>>
  /\ UNCHANGED <<chat_vars, sessions_vars, service_vars, worker_vars, registry_vars, is_processing>>

\* FunctionManager.register(function_class)
Register(name) ==
  /\ functions' = functions \cup {name}
  /\ last_op' = "register"
  /\ UNCHANGED <<session, current_state, memory, memory_history, pc, reply,
                 content, has_memory_ops, resolved, outcome, ret, target,
                 prev_memory, prev_state>>
  /\ UNCHANGED <<fn_name, fn_args, fn_result, executed>>
  /\ UNCHANGED <<chat_vars, sessions_vars, service_vars, worker_vars, registry_vars, is_processing>>

\* FunctionManager(...).execute_function(function_name, args): the manager
\* exists, so discovery has run
ExecuteFunction(name, args) ==
  /\ functions # {}
  /\ Dispatched(name, args, execute_function(functions, name, args),
                "execute_function")
  /\ UNCHANGED functions

\* FunctionManager.execute_tool_call(tool_call), a class method
ExecuteToolCall(name, args) ==
  /\ Dispatched(name, args, execute_function(functions, name, args),
                "execute_tool_call")
  /\ UNCHANGED functions

\* FunctionExecutor(parser_designer).execute_function(function_name, args)
ExecutorExecuteFunction(parser_designer, name, args) ==
  /\ Dispatched(name, args,
                executor_execute_function(parser_designer, name, args),
                IF parser_designer THEN "executor" ELSE "executor_bare")
  /\ UNCHANGED functions

NextDispatch ==
  \/ DiscoverFunctions
  \/ \E name \in FunctionClasses : Register(name)
  \/ \E name \in FunctionNames, args \in ArgDicts : ExecuteFunction(name, args)
  \/ \E name \in FunctionNames, args \in ArgDicts : ExecuteToolCall(name, args)
  \/ \E d \in BOOLEAN, name \in FunctionNames, args \in ArgDicts :
       ExecutorExecuteFunction(d, name, args)

SpecDispatch == InitDispatch /\ [][NextDispatch]_vars

(***************************************************************************)
(* LLMWrapper.chat.  The positions of a running chat: "call1" and "call2"  *)
(* (the first and the second call_llm is out), "streaming" (the generator  *)
(* of process_stream is being consumed), "done" (chat has returned, raised *)
(* or its generator is exhausted), "hung".                                 *)
(***************************************************************************)
\* what the LLM may answer to a call of the wrapper
ChatReplies ==
  { <<Txt("hi")>>,
    MemSet(<<Obj(UrlOnly)>>) \o <<Txt("hi")>>,
    MemGet(<<Txt("url")>>),
    MemSet(<<Txt("oops")>>) \o <<Txt("hi")>>,
    MemSet(<<Num("42")>>),
    <<Tag("</mem_get>"), Tag("<mem_get>")>> }

Turns(hist) == Cardinality({i \in 1..Len(hist) : hist[i].role = "user"})

\* chat(user_input, focus_mode, stream) up to its first call_llm
Chat(input, focus, s) ==
  /\ session = Wrapper
  /\ pc = "idle"
  /\ Turns(history) < MaxTurns
  /\ history' = Append(history, Msg("user", input, <<memory>>))
  /\ messages' = prepare_messages(history', memory, memory_history,
                                  max_history_tokens, max_tokens, input, focus)
  /\ calls' = <<FALSE>>
  /\ pc' = "call1"
  /\ user_input' = input
  /\ focus_mode' = focus
  /\ stream' = s
  /\ delivered' = <<>>
  /\ chunks' = <<>>
  /\ prev_history' = history
  /\ prev_memory' = memory
  /\ outcome' = "ok"
  /\ last_op' = "chat"
  /\ UNCHANGED <<session, current_state, memory, memory_history, reply,
                 content, has_memory_ops, resolved, ret, target, prev_state>>
  /\ UNCHANGED <<max_history_tokens, max_tokens, threads, round_trips,
                 origin>>
  /\ UNCHANGED <<dispatch_vars, sessions_vars, service_vars, worker_vars, registry_vars, is_processing>>

\* what no step of chat touches
ChatFrame ==
  /\ UNCHANGED <<session, current_state, ret, target, prev_state,
                 prev_memory, prev_history, user_input, focus_mode, stream,
                 max_history_tokens, max_tokens, threads, round_trips,
                 origin>>
  /\ UNCHANGED <<dispatch_vars, sessions_vars, service_vars, worker_vars, registry_vars, is_processing>>

\* an exception leaves chat (or its generator) for the caller
Raise(op) ==
  /\ pc' = "done"
  /\ outcome' = "raised"
  /\ last_op' = op

\* _process_memory_operations does not return
Hang(r) ==
  /\ pc' = "hung"
  /\ outcome' = "hang"
  /\ last_op' = "process"
  /\ reply' = r
  /\ UNCHANGED <<memory, memory_history, history, messages, calls, delivered,
                 chunks, content, has_memory_ops, resolved>>

\* the final step as it would be if the history received the reply as the
\* LLM wrote it
FinalReply_raw(r, item) ==
  \E p \in {WrapperProcess(r, memory)} :
    /\ reply' = r
    /\ \/ /\ p.outcome = "ok"
          /\ memory' = p.mem
          /\ memory_history' =
               IF p.has
               THEN Append(memory_history,
                           Msg("assistant", p.text, <<p.mem>>))
               ELSE memory_history
          /\ history' = Append(history, Msg("assistant", r, <<p.mem>>))
          /\ content' = p.text
          /\ has_memory_ops' = p.has
          /\ resolved' = p.resolved
          /\ delivered' = Append(delivered, item)
          /\ pc' = "done"
          /\ outcome' = "ok"
          /\ last_op' = "process"
          /\ UNCHANGED <<messages, calls, chunks>>
       \/ /\ p.outcome = "raised"
          /\ memory' = p.mem
          /\ Raise("process")
          /\ UNCHANGED <<memory_history, history, messages, calls, delivered,
                         chunks, content, has_memory_ops, resolved>>
       \/ /\ p.outcome = "hang"
          /\ Hang(r)

\* the user-facing reply is cleaned once more, logged and appended to the
\* history (chat, lines 603-617 and 579-593)
FinalReply(r, item) ==
  \E p \in {WrapperProcess(r, memory)} :
    /\ reply' = r
    /\ \/ /\ p.outcome = "ok"
          /\ memory' = p.mem
          /\ memory_history' =
               IF p.has
               THEN Append(memory_history,
                           Msg("assistant", p.text, <<p.mem>>))
               ELSE memory_history
          /\ history' = Append(history, Msg("assistant", p.text, <<p.mem>>))
          /\ content' = p.text
          /\ has_memory_ops' = p.has
          /\ resolved' = p.resolved
          /\ delivered' = Append(delivered, item)
          /\ pc' = "done"
          /\ outcome' = "ok"
          /\ last_op' = "process"
          /\ UNCHANGED <<messages, calls, chunks>>
       \/ /\ p.outcome = "raised"
          /\ memory' = p.mem
          /\ Raise("process")
          /\ UNCHANGED <<memory_history, history, messages, calls, delivered,
                         chunks, content, has_memory_ops, resolved>>
       \/ /\ p.outcome = "hang"
          /\ Hang(r)

\* the first call_llm returns r: lines 535-560 and 621-631
FirstReply(r) ==
  /\ session = Wrapper
  /\ pc = "call1"
  /\ ChatFrame
  /\ \E p \in {WrapperProcess(r, memory)} :
       \/ /\ p.outcome = "ok"
          /\ p.has
          /\ reply' = r
          /\ memory' = p.mem
          /\ memory_history' =
               memory_history \o <<Msg("user", user_input, <<p.mem>>),
                                   Msg("assistant", p.text, <<p.mem>>)>>
          /\ messages' = second_messages(history, memory, p.mem,
                                         memory_history',
                                         max_history_tokens, max_tokens,
                                         user_input, focus_mode)
          /\ calls' = Append(calls, stream)
          /\ content' = p.text
          /\ has_memory_ops' = TRUE
          /\ resolved' = p.resolved
          /\ pc' = "call2"
          /\ outcome' = "ok"
          /\ last_op' = "process"
          /\ UNCHANGED <<history, delivered, chunks>>
       \/ /\ p.outcome = "ok"
          /\ ~p.has
          /\ reply' = r
          /\ history' = Append(history, Msg("assistant", p.text, <<p.mem>>))
          /\ memory' = p.mem
          /\ content' = p.text
          /\ has_memory_ops' = FALSE
          /\ resolved' = p.resolved
          /\ delivered' = <<"object">>
          /\ pc' = "done"
          /\ outcome' = "ok"
          /\ last_op' = "process"
          /\ UNCHANGED <<memory_history, messages, calls, chunks>>
       \/ /\ p.outcome = "raised"
          /\ reply' = r
          /\ memory' = p.mem
          /\ Raise("process")
          /\ UNCHANGED <<memory_history, history, messages, calls, delivered,
                         chunks, content, has_memory_ops, resolved>>
       \/ /\ p.outcome = "hang"
          /\ Hang(r)

\* client.call_llm raises (first or second call); chat has no try/except
CallRaises ==
  /\ session = Wrapper
  /\ pc \in {"call1", "call2"}
  /\ ChatFrame
  /\ Raise("call_raised")
  /\ UNCHANGED <<memory, memory_history, history, messages, calls, delivered,
                 chunks, reply, content, has_memory_ops, resolved>>

\* the second call_llm, not streamed, returns r: lines 599-620
SecondReply(r) ==
  /\ session = Wrapper
  /\ pc = "call2"
  /\ ~stream
  /\ ChatFrame
  /\ FinalReply(r, "object")

\* the second call_llm, streamed, returns its generator and chat returns
\* process_stream(); r is the text the stream is going to carry
SecondStream(r) ==
  /\ session = Wrapper
  /\ pc = "call2"
  /\ stream
  /\ ChatFrame
  /\ reply' = r
  /\ chunks' = <<>>
  /\ pc' = "streaming"
  /\ last_op' = "stream"
  /\ UNCHANGED <<memory, memory_history, history, messages, calls, delivered,
                 content, has_memory_ops, resolved, outcome>>

\* process_stream as it would be if it ran the directive parser on the
\* chunks received so far
stream_chunk_applying(mem, content_chunks) ==
  WrapperProcess(content_chunks, mem).mem

\* process_stream: a str chunk is kept and yielded (lines 568-571); nothing
\* of the session is touched here
stream_chunk(mem, content_chunks) == mem

\* process_stream: the next fragment of the streamed text, one token of it
StreamChunk ==
  /\ session = Wrapper
  /\ pc = "streaming"
  /\ Len(chunks) < Len(reply)
  /\ ChatFrame
  /\ chunks' = Append(chunks, reply[Len(chunks) + 1])
  /\ memory' = stream_chunk(memory, chunks')
  /\ delivered' = Append(delivered, "fragment")
  /\ last_op' = "chunk"
  /\ UNCHANGED <<memory_history, history, messages, calls, reply, content,
                 has_memory_ops, resolved, outcome, pc>>

\* process_stream: the LLMResponse ends the stream; its content is the join
\* of the chunks (lines 572-596)
StreamFinal ==
  /\ session = Wrapper
  /\ pc = "streaming"
  /\ Len(chunks) = Len(reply)
  /\ ChatFrame
  /\ FinalReply(chunks, "final")

\* the stream raises while it is consumed
StreamRaises ==
  /\ session = Wrapper
  /\ pc = "streaming"
  /\ ChatFrame
  /\ Raise("stream_raised")
  /\ UNCHANGED <<memory, memory_history, history, messages, calls, delivered,
                 chunks, reply, content, has_memory_ops, resolved>>

\* the caller is done with the result of chat: the locals of the call are
\* gone, the fields of the wrapper stay
ChatReturn ==
  /\ session = Wrapper
  /\ pc = "done"
  /\ pc' = "idle"
  /\ reply' = <<>>
  /\ content' = <<>>
  /\ has_memory_ops' = FALSE
  /\ resolved' = <<>>
  /\ outcome' = "ok"
  /\ messages' = <<>>
  /\ calls' = <<>>
  /\ delivered' = <<>>
  /\ chunks' = <<>>
  /\ user_input' = <<>>
  /\ focus_mode' = FALSE
  /\ stream' = FALSE
  /\ prev_history' = history
  /\ prev_memory' = memory
  /\ last_op' = "init"
  /\ UNCHANGED <<session, current_state, memory, memory_history, history,
                 ret, target, prev_state, max_history_tokens, max_tokens,
                 threads, round_trips, origin>>
  /\ UNCHANGED <<dispatch_vars, sessions_vars, service_vars, worker_vars, registry_vars, is_processing>>

(***************************************************************************)
(* The window's conversation loop: LLMWorker.call_llm starts a             *)
(* StreamProcessor thread per call; the thread emits chunk_received,       *)
(* response_received, function_call_received and finished, which reach the *)
(* window's slots in the order of emission: a step is one emission         *)
(* together with the slot it runs.                                         *)
(***************************************************************************)
MaxRoundTrips == 2   \* follow-up LLM calls of one turn that the model follows

ToolCall(name, args) == [name |-> name, args |-> args]

LLMReply(text, tool_calls) == [content |-> text, tool_calls |-> tool_calls]

\* what the LLM may answer to a call of the window; parse_webpage is asked
\* for without its action, which its InputModel rejects
WindowReplies ==
  { LLMReply(MemSet(<<Obj(UrlOnly)>>), <<>>),
    LLMReply(<<>>, <<ToolCall("get_weather", Args({"location"}, "str"))>>),
    LLMReply(<<>>,
             <<ToolCall("nonexistent_fn", EmptyDict),
               ToolCall("parse_webpage", Args({"url"}, "str"))>>) }

Signal(sig, text, name, args, from) ==
  [sig |-> sig, text |-> text, name |-> name, args |-> args, from |-> from]

\* StreamProcessor.run on the generator of reply r, for call number id: what
\* it emits, in order
Emissions(r, id) ==
  [i \in 1..Len(r.content) |->
     Signal("chunk", <<r.content[i]>>, "", EmptyDict, id)]
  \o <<Signal("response", r.content, "", EmptyDict, id)>>
  \o [i \in 1..Len(r.tool_calls) |->
        Signal("function_call", <<>>, r.tool_calls[i].name,
               r.tool_calls[i].args, id)]
  \o <<Signal("finished", <<>>, "", EmptyDict, id)>>

\* StreamProcessor.run when the generator raises: except and finally
Failure(id) ==
  <<Signal("error", <<Txt("error")>>, "", EmptyDict, id),
    Signal("finished", <<>>, "", EmptyDict, id)>>

\* on_llm_error: chat_widget.receive_message(f"Sorry, ... {error_message}")
sorry == Msg("assistant", <<Txt("Sorry"), Txt("error")>>, <<>>)

\* f"<state>{self.current_state}</state>\n{message}"
state_message(state, message) ==
  Msg("user", StateTag(<<Txt(state)>>) \o <<NL>> \o message, <<>>)

\* f"Function {function_name} returned: {json.dumps(function_response)}"
function_message(name, result) ==
  Msg("system",
      <<Txt("Function"), Txt(name), Txt("returned:"),
        Tok(result.kind, "{}", EmptyDict, result.text)>>,
      <<>>)

\* What llm_worker.call_llm(history.get_openai_messages(), ...) leaves
\* behind, as [history, threads, calls]: either a new thread that will emit
\* reply r, or, when the call raises at once, the error message that
\* on_llm_error appends.
call_llm(hist, thrs, cs, r, fails) ==
  IF fails
  THEN [history |-> Append(hist, sorry), threads |-> thrs,
        calls |-> Append(cs, TRUE), messages |-> hist]
  ELSE [history |-> hist,
        threads |-> Append(thrs, Emissions(r, Len(cs) + 1)),
        calls |-> Append(cs, TRUE), messages |-> hist]

\* on_message_sent(message), one invocation of the slot
on_message_sent(hist, thrs, cs, state, message, r, fails) ==
  call_llm(Append(hist, state_message(state, message)), thrs, cs, r, fails)

\* chat_widget.is_processing after llm_worker.call_llm has returned: a call
\* that raises at once emits error_occurred and finished before it returns
\* (worker.py, the outer except), and on_llm_finished re-enables the input
after_call_llm(processing, fails) == IF fails THEN FALSE ELSE processing

WindowRest ==
  /\ UNCHANGED <<session, pc, ret, target, resolved, prev_history,
                 user_input, focus_mode, stream, delivered,
                 max_history_tokens, max_tokens>>
  /\ UNCHANGED <<functions, sessions_vars, service_vars, worker_vars,
                 registry_vars>>

WindowFrame == WindowRest /\ UNCHANGED is_processing

Untouched == UNCHANGED <<current_state, memory, memory_history>>

NoDispatchNow == UNCHANGED <<fn_name, fn_args, fn_result, executed>>

\* chat_widget.send_message: the user's message is appended and message_sent
\* emitted; on_message_sent is connected to it twice (setup_ui and
\* setup_signals), so it runs twice.  The input is read-only and the send
\* button disabled while is_processing is set.
SendMessage(message, r1, f1, r2, f2) ==
  /\ session = Window
  /\ pc = "idle"
  /\ is_processing = FALSE
  /\ Turns(history) < 3 * MaxTurns
  /\ LET first == on_message_sent(Append(history, Msg("user", message, <<>>)),
                                  threads, <<>>, current_state, message,
                                  r1, f1)
         second == on_message_sent(first.history, first.threads, first.calls,
                                   current_state, message, r2, f2)
     IN  /\ history' = second.history
         /\ threads' = second.threads
         /\ calls' = second.calls
         /\ messages' = second.messages
  /\ round_trips' = 0
  /\ chunks' = <<>>
  /\ origin' = 0
  /\ reply' = <<>>
  /\ content' = <<>>
  /\ has_memory_ops' = FALSE
  /\ outcome' = "ok"
  /\ prev_memory' = memory
  /\ prev_state' = current_state
  /\ last_op' = "send"
  /\ is_processing' = after_call_llm(TRUE, f2)
  /\ WindowRest /\ Untouched /\ NoDispatchNow

\* StreamProcessor.run, thread i: the generator raises before the final
\* response
StreamFails(i) ==
  /\ session = Window
  /\ i \in 1..Len(threads)
  /\ \E k \in 1..Len(threads[i]) : threads[i][k].sig = "response"
  /\ threads' = [threads EXCEPT ![i] = Failure(Head(threads[i]).from)]
  /\ last_op' = "stream_fails"
  /\ UNCHANGED <<history, calls, messages, round_trips, chunks, origin,
                 reply, content, has_memory_ops, outcome, prev_memory,
                 prev_state>>
  /\ WindowFrame /\ Untouched /\ NoDispatchNow

\* thread i without its next emission
Rest(thrs, i) ==
  IF Len(thrs[i]) = 1
  THEN [j \in 1..(Len(thrs) - 1) |-> IF j < i THEN thrs[j] ELSE thrs[j + 1]]
  ELSE [thrs EXCEPT ![i] = Tail(thrs[i])]

\* thread i emits its next signal, sig, and the slot connected to it runs
Take(i, sig) ==
  /\ session = Window
  /\ pc = "idle"
  /\ i \in 1..Len(threads)
  /\ Head(threads[i]).sig = sig
  /\ origin' = Head(threads[i]).from

\* on_llm_chunk: the chunk is displayed; memory and state stay
on_llm_chunk(mem, state, streaming_message) ==
  [memory |-> mem, state |-> state]

\* ParserDesignerWindow.on_llm_chunk with chat_widget.receive_chunk, which
\* adds the chunk to current_streaming_message
OnLLMChunk(i) ==
  /\ Take(i, "chunk")
  /\ threads' = Rest(threads, i)
  /\ chunks' = chunks \o Head(threads[i]).text
  /\ \E c \in {on_llm_chunk(memory, current_state, chunks')} :
       /\ memory' = c.memory
       /\ current_state' = c.state
  /\ last_op' = "chunk"
  /\ UNCHANGED <<memory_history, history, calls, messages, round_trips, reply,
                 content, has_memory_ops, outcome, prev_memory, prev_state>>
  /\ WindowFrame /\ NoDispatchNow

\* ParserDesignerWindow.on_llm_response with chat_widget.receive_message,
\* which empties current_streaming_message
OnResponseReceived(i) ==
  /\ Take(i, "response")
  /\ threads' = Rest(threads, i)
  /\ reply' = Head(threads[i]).text
  /\ prev_memory' = memory
  /\ prev_state' = current_state
  /\ last_op' = "process"
  /\ \E p \in {WindowProcess(Head(threads[i]).text, memory, current_state)} :
       /\ memory' = p.mem
       /\ current_state' = p.cur
       /\ memory_history' = memory_history \o p.log
       /\ has_memory_ops' = p.has
       /\ outcome' = p.outcome
       /\ content' = IF p.outcome = "ok" THEN p.text ELSE <<>>
       /\ history' = IF p.outcome = "ok"
                     THEN Append(history, Msg("assistant", p.text, <<>>))
                     ELSE history
       /\ chunks' = IF p.outcome = "ok" THEN <<>> ELSE chunks
       /\ pc' = IF p.outcome = "hang" THEN "hung" ELSE "idle"
  /\ UNCHANGED <<calls, messages, round_trips>>
  /\ UNCHANGED <<session, ret, target, resolved, prev_history, user_input,
                 focus_mode, stream, delivered, max_history_tokens,
                 max_tokens>>
  /\ UNCHANGED <<functions, sessions_vars, service_vars, worker_vars, registry_vars, is_processing>>
  /\ NoDispatchNow

(***************************************************************************)
(* The function bodies that act on the window.  w is what they may touch:  *)
(* [memory, state, html_content, parser_config, history, fetching,         *)
(* record]; the result is [w, kind], kind "error" for a dictionary with an *)
(* "error" key and "result" for any other.  ok says whether the outside    *)
(* world (browser start, parsing, database) plays along.                   *)
(***************************************************************************)
Outcome(w, kind) == [w |-> w, kind |-> kind]

system_message(text) == Msg("system", <<Txt(text)>>, <<>>)

\* a transition that assigns the new state without the validation
transition_unchecked(w, new_state) == [w EXCEPT !.state = new_state]

\* parser_designer._handle_state_transition(new_state), on w
transition(w, new_state) ==
  [w EXCEPT !.state = handle_state_transition(w.memory, new_state).state]

\* parser_designer.memory[key] = value for each key
remember(w, keys) ==
  [w EXCEPT !.memory = DictUpdate(@, [k \in keys |-> "v1"])]

\* ParserDesignerWindow._fetch_webpage(url), url not empty: the browser is
\* started and will deliver the page later
fetch_webpage(w, ok) ==
  IF ok
  THEN Outcome([w EXCEPT
                  !.history = Append(@, system_message("Opening browser...")),
                  !.fetching = @ + 1],
               "result")
  ELSE Outcome([w EXCEPT
                  !.history = @ \o <<system_message("Opening browser..."),
                                     system_message("Error starting browser")>>],
               "error")

\* ParserDesignerWindow._parse_with_parser(url, parser_config)
parse_with_parser(w, config, ok) ==
  IF w.html_content = ""
  THEN Outcome(fetch_webpage(w, ok).w, "result")
  ELSE Outcome([w EXCEPT !.parser_config = config],
               IF ok THEN "result" ELSE "error")

\* ParserDesignerWindow.save_parser, lines 743-749 and 784: the session goes
\* into chat_data of the record (memory_history too, which is never read
\* back)
save_parser(w, ok) ==
  IF ok
  THEN [w EXCEPT !.record = <<[chat_history |-> w.history,
                               memory |-> w.memory, state |-> w.state]>>]
  ELSE w

\* the resume target of the RECOVERY branch, lines 160-171
resume_target(mem) ==
  IF "parsing_result" \in DOMAIN mem THEN STATE_FINAL_CONFIRMATION
  ELSE IF "parser_code" \in DOMAIN mem THEN STATE_TESTING_PARSER
  ELSE IF "title" \in DOMAIN mem THEN STATE_CREATING_PARSER
  ELSE IF "html" \in DOMAIN mem THEN STATE_ANALYZING_CONTENT
  ELSE IF "url" \in DOMAIN mem THEN STATE_FETCHING_HTML
  ELSE STATE_WAITING_FOR_URL

\* ParseWebpage.execute(validated_input); config is "" when parser_config is
\* None or empty
parse_webpage(w, state, action, config, ok) ==
  CASE state = STATE_WAITING_FOR_URL ->
         Outcome(transition(remember(w, {"url"}), STATE_FETCHING_HTML),
                 "result")
    [] state = STATE_FETCHING_HTML ->
         IF action = "fetch" THEN fetch_webpage(w, ok)
         ELSE IF action = "retry"
              THEN fetch_webpage([w EXCEPT !.html_content = ""], ok)
              ELSE Outcome(w, "error")
    [] state = STATE_ANALYZING_CONTENT ->
         IF w.html_content = "" THEN Outcome(w, "error")
         ELSE IF action = "analyze"
              THEN Outcome(remember(w, {"html"}), "result")
              ELSE Outcome(w, "error")
    [] state = STATE_CONFIRMING_EXTRACTION ->
         IF config = "" THEN Outcome(w, "error")
         ELSE IF action = "confirm"
              THEN Outcome(transition(remember(w, {"title", "date", "body"}),
                                      STATE_CREATING_PARSER),
                           "result")
              ELSE Outcome(w, "error")
    [] state = STATE_CREATING_PARSER ->
         IF config = "" THEN Outcome(w, "error")
         ELSE IF action = "create"
              THEN Outcome(transition(remember([w EXCEPT
                                                  !.parser_config = config],
                                               {"parser_code"}),
                                      STATE_TESTING_PARSER),
                           "result")
              ELSE Outcome(w, "error")
    [] state = STATE_TESTING_PARSER ->
         IF w.parser_config = "" THEN Outcome(w, "error")
         ELSE IF action = "test"
              THEN LET p == parse_with_parser(w, w.parser_config, ok)
                   IN  IF p.kind = "error" THEN p
                       ELSE Outcome(transition(remember(p.w,
                                                        {"parsing_result"}),
                                               STATE_FINAL_CONFIRMATION),
                                    "result")
              ELSE Outcome(w, "error")
    [] state = STATE_FINAL_CONFIRMATION ->
         IF action = "save" THEN Outcome(save_parser(w, ok), "result")
         ELSE IF action = "modify"
              THEN Outcome(transition(w, STATE_CREATING_PARSER), "result")
              ELSE Outcome(w, "error")
    [] state = STATE_RECOVERY ->
         IF action = "recover"
         THEN Outcome(transition(w, resume_target(w.memory)), "result")
         ELSE Outcome(w, "error")
    [] OTHER -> Outcome(w, "error")

\* the execute body of function name, run on w after its arguments were
\* accepted; get_weather and test_function touch nothing of the window
function_body(name, w, args, state, ok) ==
  CASE name = "parse_webpage" ->
         parse_webpage(w, state, args["action"],
                       IF "parser_config" \in DOMAIN args THEN "cfg" ELSE "",
                       ok)
    [] name = "fetch_webpage" -> fetch_webpage(w, ok)
    [] OTHER -> Outcome(w, "result")

\* ParserDesignerWindow.on_function_call(function_name, function_args); r is
\* what the LLM is going to answer to the new call, fails says that the call
\* raises at once
OnFunctionCall(i, r, fails, ok) ==
  /\ Take(i, "function_call")
  /\ round_trips < MaxRoundTrips
  /\ LET name == Head(threads[i]).name
         args == IF name = "parse_webpage"
                 THEN [f \in DOMAIN Head(threads[i]).args \cup {"state"} |->
                         IF f = "state" THEN "str"
                         ELSE Head(threads[i]).args[f]]
                 ELSE Head(threads[i]).args
         function_response == execute_function(functions, name, args)
         w == [memory |-> memory, state |-> current_state,
               html_content |-> html_content,
               parser_config |-> parser_config, history |-> history,
               fetching |-> fetching, record |-> record]
         body == IF name \in function_response.ran
                 THEN function_body(name, w, args, current_state, ok)
                 ELSE Outcome(w, function_response.result.kind)
         result == IF body.kind = function_response.result.kind
                   THEN function_response.result
                   ELSE Error(<<name, "failed">>)
         recovery == name = "parse_webpage" /\ result.kind = "error"
         again == call_llm(Append(body.w.history,
                                  function_message(name, result)),
                           Rest(threads, i), calls, r, fails)
     IN  /\ fn_name' = name
         /\ fn_args' = args
         /\ fn_result' = result
         /\ executed' = function_response.ran
         /\ memory' = body.w.memory
         /\ html_content' = body.w.html_content
         /\ parser_config' = body.w.parser_config
         /\ fetching' = body.w.fetching
         /\ record' = body.w.record
         /\ current_state' =
              IF recovery
              THEN handle_state_transition(body.w.memory,
                                           STATE_RECOVERY).state
              ELSE body.w.state
         /\ history' = again.history
         /\ threads' = again.threads
         /\ calls' = again.calls
         /\ messages' = again.messages
  /\ round_trips' = round_trips + 1
  /\ prev_memory' = memory
  /\ prev_state' = current_state
  /\ last_op' = "function_call"
  /\ is_processing' = after_call_llm(is_processing, fails)
  /\ UNCHANGED <<memory_history, chunks, reply, content, has_memory_ops,
                 outcome>>
  /\ UNCHANGED <<session, pc, ret, target, resolved, prev_history,
                 user_input, focus_mode, stream, delivered,
                 max_history_tokens, max_tokens>>
  /\ UNCHANGED <<functions, sessions_vars, options, worker_vars,
                 registry_vars>>

\* ParserDesignerWindow.on_llm_error
OnLLMError(i) ==
  /\ Take(i, "error")
  /\ threads' = Rest(threads, i)
  /\ history' = Append(history, sorry)
  /\ chunks' = <<>>
  /\ last_op' = "error"
  /\ UNCHANGED <<calls, messages, round_trips, reply, content,
                 has_memory_ops, outcome, prev_memory, prev_state>>
  /\ WindowFrame /\ Untouched /\ NoDispatchNow

\* ParserDesignerWindow.on_llm_finished
OnLLMFinished(i) ==
  /\ Take(i, "finished")
  /\ threads' = Rest(threads, i)
  /\ last_op' = "finished"
  /\ is_processing' = FALSE
  /\ UNCHANGED <<history, calls, messages, round_trips, chunks, reply,
                 content, has_memory_ops, outcome, prev_memory, prev_state>>
  /\ WindowRest /\ Untouched /\ NoDispatchNow

InitChat ==
  /\ \/ /\ session = Wrapper
        /\ current_state = ""
        /\ history = <<>>
        /\ functions = {}
     \/ /\ session = Window
        /\ current_state = STATE_WAITING_FOR_URL
        /\ history = <<Msg("system", system_prompt, <<>>)>>
        /\ functions = FunctionClasses
  /\ memory = EmptyDict
  /\ memory_history = <<>>
  /\ prev_memory = memory
  /\ prev_state = current_state
  /\ prev_history = history
  /\ Quiet
  /\ user_input = <<>> /\ focus_mode = FALSE /\ stream = FALSE
  /\ calls = <<>> /\ delivered = <<>> /\ chunks = <<>> /\ messages = <<>>
  /\ max_history_tokens = 4000 /\ max_tokens = 4000
  /\ threads = <<>> /\ round_trips = 0 /\ origin = 0
  /\ fn_name = "" /\ fn_args = <<>> /\ fn_result = <<>> /\ executed = {}
  /\ NoSessions /\ NoService /\ NoWorker /\ NoRegistry /\ NoWidget

NextChat ==
  \/ \E input \in UserInputs, focus \in BOOLEAN, s \in BOOLEAN :
       Chat(input, focus, s)
  \/ \E r \in ChatReplies : FirstReply(r)
  \/ CallRaises
  \/ \E r \in ChatReplies : SecondReply(r)
  \/ \E r \in ChatReplies : SecondStream(r)
  \/ StreamChunk
  \/ StreamFinal
  \/ StreamRaises
  \/ ChatReturn
  \/ \E message \in UserInputs, r1 \in WindowReplies, r2 \in WindowReplies,
        f1 \in BOOLEAN, f2 \in BOOLEAN : SendMessage(message, r1, f1, r2, f2)
  \/ \E i \in 1..Len(threads) : StreamFails(i)
  \/ \E i \in 1..Len(threads) : OnLLMChunk(i)
  \/ \E i \in 1..Len(threads) : OnResponseReceived(i)
  \/ \E i \in 1..Len(threads), r \in WindowReplies, fails \in BOOLEAN,
        ok \in BOOLEAN :
       OnFunctionCall(i, r, fails, ok)
  \/ \E i \in 1..Len(threads) : OnLLMError(i)
  \/ \E i \in 1..Len(threads) : OnLLMFinished(i)

SpecChat == InitChat /\ [][NextChat]_vars

(***************************************************************************)
(* The parser-design window with the functions that act on it: the LLM    *)
(* asks for parse_webpage with an action and for fetch_webpage, the        *)
(* browser delivers the page some time after a fetch was started.          *)
(***************************************************************************)
Recover == ToolCall("parse_webpage", [url |-> "str", action |-> "recover"])

ParseReplies ==
  { LLMReply(<<Txt("hi")>>, <<Recover>>),
    LLMReply(<<>>, <<ToolCall("fetch_webpage", Args({"url"}, "str"))>>) }

\* the windows the conversation starts in: a new parser without a url, and
\* a record without saved memory opened for editing without a url
ParseOpenings ==
  { a \in Openings :
      /\ ~a.url_given /\ a.json_ok /\ a.saved = EmptyDict
      /\ a.saved_state = STATE_WAITING_FOR_URL
      /\ a.edit = a.has_history }

\* ParserDesignerWindow._on_html_received(html), the slot of
\* completeHtmlSignal; r and fails as in OnFunctionCall
OnHtmlReceived(r, fails, ok) ==
  /\ session = Window
  /\ pc = "idle"
  /\ fetching > 0
  /\ round_trips < MaxRoundTrips
  /\ LET w == [memory |-> memory, state |-> current_state,
               html_content |-> "html", parser_config |-> parser_config,
               history |-> history
                             \o <<system_message("HTML content retrieved"),
                                  system_message("Closing browser...")>>,
               fetching |-> fetching - 1, record |-> record]
         parsed == IF parser_config # ""
                   THEN parse_with_parser(
                          [w EXCEPT !.history =
                             Append(@, system_message("Continuing"))],
                          parser_config, ok)
                   ELSE Outcome(w, "result")
         name == IF parser_config # "" THEN "parse_with_parser"
                 ELSE "fetch_webpage"
         again == call_llm(Append(parsed.w.history,
                                  function_message(name,
                                    IF parsed.kind = "error"
                                    THEN Error(<<name, "failed">>)
                                    ELSE Returned(name))),
                           threads, calls, r, fails)
     IN  /\ html_content' = parsed.w.html_content
         /\ parser_config' = parsed.w.parser_config
         /\ fetching' = parsed.w.fetching
         /\ history' = again.history
         /\ threads' = again.threads
         /\ calls' = again.calls
         /\ messages' = again.messages
  /\ round_trips' = round_trips + 1
  /\ last_op' = "html"
  /\ is_processing' = after_call_llm(is_processing, fails)
  /\ UNCHANGED <<chunks, origin, reply, content,
                 has_memory_ops, outcome, prev_memory, prev_state, record>>
  /\ UNCHANGED <<session, pc, ret, target, resolved, prev_history,
                 user_input, focus_mode, stream, delivered,
                 max_history_tokens, max_tokens>>
  /\ UNCHANGED <<functions, sessions_vars, options, worker_vars,
                 registry_vars>>
  /\ Untouched /\ NoDispatchNow

InitParse ==
  /\ session = Window
  /\ \E a \in ParseOpenings :
       \E start \in {WindowConstruct(a.edit, a.saved, a.saved_state,
                                     a.json_ok, a.url_given,
                                     a.has_history)} :
         /\ current_state = start.state
         /\ memory = start.memory
         /\ parser_config = IF a.edit THEN "cfg" ELSE ""
         /\ history = <<Msg("system", system_prompt, <<>>)>>
                         \o IF a.has_history
                            THEN <<Msg("assistant", <<Txt("hi")>>, <<>>)>>
                            ELSE <<>>
  /\ functions = FunctionClasses
  /\ memory_history = <<>>
  /\ prev_memory = memory
  /\ prev_state = current_state
  /\ prev_history = history
  /\ Quiet
  /\ user_input = <<>> /\ focus_mode = FALSE /\ stream = FALSE
  /\ calls = <<>> /\ delivered = <<>> /\ chunks = <<>> /\ messages = <<>>
  /\ max_history_tokens = 4000 /\ max_tokens = 4000
  /\ threads = <<>> /\ round_trips = 0 /\ origin = 0
  /\ fn_name = "" /\ fn_args = <<>> /\ fn_result = <<>> /\ executed = {}
  /\ NoSessions
  /\ options = <<>> /\ html_content = "" /\ fetching = 0 /\ record = <<>>
  /\ NoWorker /\ NoRegistry /\ NoWidget

NextParse ==
  \/ \E r1 \in ParseReplies, r2 \in ParseReplies, f1 \in BOOLEAN,
        f2 \in BOOLEAN : SendMessage(<<Txt("q1")>>, r1, f1, r2, f2)
  \/ \E i \in 1..Len(threads) : StreamFails(i)
  \/ \E i \in 1..Len(threads) : OnLLMChunk(i)
  \/ \E i \in 1..Len(threads) : OnResponseReceived(i)
  \/ \E i \in 1..Len(threads), r \in ParseReplies, fails \in BOOLEAN,
        ok \in BOOLEAN :
       OnFunctionCall(i, r, fails, ok)
  \/ \E r \in ParseReplies, fails \in BOOLEAN, ok \in BOOLEAN :
       OnHtmlReceived(r, fails, ok)
  \/ \E i \in 1..Len(threads) : OnLLMError(i)
  \/ \E i \in 1..Len(threads) : OnLLMFinished(i)

SpecParse == InitParse /\ [][NextParse]_vars

(***************************************************************************)
(* LLMWorker.call_llm with stream=True, step by step.  A call runs in the  *)
(* caller's thread up to the start of its StreamProcessor, which then runs *)
(* on its own; nothing keeps a second call from starting while the first   *)
(* is still emitting.  A step is one emission or one assignment of         *)
(* is_running.                                                             *)
(***************************************************************************)
MaxCalls == 2   \* call_llm invocations of one behaviour

WorkerReplies ==
  { LLMReply(<<Txt("a"), Txt("b")>>,
             <<ToolCall("get_weather", Args({"location"}, "str")),
               ToolCall("fetch_webpage", Args({"url"}, "str"))>>),
    LLMReply(<<>>, <<>>) }

\* self.worker.is_running = False, the step before the last emission
\* (worker.py:110-112 and 151-153)
Cleared(steps) ==
  SubSeq(steps, 1, Len(steps) - 1)
    \o <<Signal("clear", <<>>, "", EmptyDict, steps[1].from)>>
    \o <<steps[Len(steps)]>>

\* LLMWorker.call_llm(messages, stream=True, ...): r is what the generator
\* is going to carry, raises says that llm_client.call_llm raises
CallLLM(r, raises) ==
  /\ session = Window
  /\ Len(calls) < MaxCalls
  /\ is_running' = TRUE
  /\ calls' = Append(calls, r)
  /\ threads' = Append(threads,
                       IF raises THEN Cleared(Failure(Len(calls) + 1))
                       ELSE Cleared(Emissions(r, Len(calls) + 1)))
  /\ last_op' = "call_llm"
  /\ UNCHANGED <<emitted, history, prev_history, user_input, focus_mode,
                 stream, delivered, chunks, messages, max_history_tokens,
                 max_tokens, round_trips, origin>>
  /\ UNCHANGED <<session, current_state, memory, memory_history, pc, reply,
                 content, has_memory_ops, resolved, outcome, ret, target,
                 prev_memory, prev_state>>
  /\ UNCHANGED <<dispatch_vars, sessions_vars, service_vars, registry_vars,
                 is_processing>>

WorkerFrame ==
  /\ UNCHANGED <<history, prev_history, user_input, focus_mode, stream,
                 calls, delivered, chunks, messages, max_history_tokens,
                 max_tokens, round_trips>>
  /\ UNCHANGED <<session, current_state, memory, memory_history, pc, reply,
                 content, has_memory_ops, resolved, outcome, ret, target,
                 prev_memory, prev_state>>
  /\ UNCHANGED <<dispatch_vars, sessions_vars, service_vars, registry_vars,
                 is_processing>>

\* the next step of call i: an emission, or is_running = False
WorkerStep(i) ==
  /\ session = Window
  /\ i \in 1..Len(threads)
  /\ IF Head(threads[i]).sig = "clear"
     THEN /\ is_running' = FALSE
          /\ UNCHANGED emitted
     ELSE /\ emitted' = Append(emitted, Head(threads[i]))
          /\ UNCHANGED is_running
  /\ threads' = Rest(threads, i)
  /\ origin' = Head(threads[i]).from
  /\ last_op' = Head(threads[i]).sig
  /\ WorkerFrame

\* StreamProcessor.run, call i: the generator raises before the final
\* response; except and finally follow
GeneratorRaises(i) ==
  /\ session = Window
  /\ i \in 1..Len(threads)
  /\ \E k \in 1..Len(threads[i]) : threads[i][k].sig = "response"
  /\ threads' = [threads EXCEPT
                   ![i] = Cleared(Failure(Head(threads[i]).from))]
  /\ last_op' = "raise"
  /\ UNCHANGED <<is_running, emitted, origin>>
  /\ WorkerFrame

InitWorker ==
  /\ session = Window
  /\ current_state = STATE_WAITING_FOR_URL
  /\ memory = EmptyDict
  /\ memory_history = <<>>
  /\ prev_memory = memory
  /\ prev_state = current_state
  /\ Quiet
  /\ NoChat /\ NoDispatch /\ NoSessions /\ NoService /\ NoWorker /\ NoRegistry /\ NoWidget

NextWorker ==
  \/ \E r \in WorkerReplies, raises \in BOOLEAN : CallLLM(r, raises)
  \/ \E i \in 1..Len(threads) : WorkerStep(i)
  \/ \E i \in 1..Len(threads) : GeneratorRaises(i)

SpecWorker == InitWorker /\ [][NextWorker]_vars

(***************************************************************************)
(* Saving a session into the parser record and opening the record again.  *)
(***************************************************************************)
\* chat_widget.history of the windows that get saved
Histories ==
  { <<Msg("system", system_prompt, <<>>)>>,
    <<Msg("system", system_prompt, <<>>), Msg("user", <<Txt("q1")>>, <<>>)>> }

\* chat_data written by the older window (src/parser_designer.py): the chat
\* history alone
OlderRecords == { <<[chat_history |-> h]>> : h \in Histories }

InitReload ==
  /\ session = Window
  /\ current_state \in DeclaredStates
  /\ memory \in AllMemories
  /\ memory_history = <<>>
  /\ prev_memory = memory
  /\ prev_state = current_state
  /\ Quiet
  /\ history \in Histories
  /\ prev_history = <<>>
  /\ user_input = <<>> /\ focus_mode = FALSE /\ stream = FALSE
  /\ calls = <<>> /\ delivered = <<>> /\ chunks = <<>> /\ messages = <<>>
  /\ max_history_tokens = 0 /\ max_tokens = 0
  /\ threads = <<>> /\ round_trips = 0 /\ origin = 0
  /\ NoDispatch /\ NoSessions
  /\ options = <<>> /\ html_content = "" /\ fetching = 0
  /\ NoWorker /\ NoRegistry /\ NoWidget
  /\ parser_config \in {"", "cfg"}
  /\ record \in {<<>>} \cup OlderRecords

ReloadFrame ==
  /\ UNCHANGED <<session, memory_history, pc, reply, content, has_memory_ops,
                 resolved, outcome, ret, target>>
  /\ UNCHANGED <<prev_history, user_input, focus_mode, stream, calls,
                 delivered, chunks, messages, max_history_tokens, max_tokens,
                 threads, round_trips, origin>>
  /\ UNCHANGED <<dispatch_vars, sessions_vars, options, worker_vars, registry_vars, is_processing>>

\* the Save button: ParserDesignerWindow.save_parser
SaveParser(ok) ==
  /\ session = Window
  /\ pc = "idle"
  /\ LET w == [memory |-> memory, state |-> current_state,
               html_content |-> html_content,
               parser_config |-> parser_config, history |-> history,
               fetching |-> fetching, record |-> record]
     IN  record' = save_parser(w, ok).record
  /\ prev_memory' = memory
  /\ prev_state' = current_state
  /\ last_op' = "save"
  /\ UNCHANGED <<current_state, memory, history, html_content,
                 parser_config, fetching>>
  /\ ReloadFrame

\* ParserDesignerWindow(parser_id=..., url=...) on the record: __init__ reads
\* chat_data, _initialize_chat follows
Reopen(json_ok, url_given) ==
  /\ session = Window
  /\ pc = "idle"
  /\ record # <<>>
  /\ LET chat_data == record[1]
         chat_history == chat_data.chat_history
         has_history == \E i \in 1..Len(chat_history) :
                          chat_history[i].role # "system"
         start == WindowConstruct(TRUE,
                    IF "memory" \in DOMAIN chat_data THEN chat_data.memory
                    ELSE EmptyDict,
                    IF "state" \in DOMAIN chat_data THEN chat_data.state
                    ELSE STATE_WAITING_FOR_URL,
                    json_ok, url_given, has_history)
     IN  /\ current_state' = start.state
         /\ memory' = start.memory
         /\ history' = IF has_history THEN chat_history
                       ELSE Append(chat_history,
                                   Msg("assistant", <<Txt("Welcome")>>, <<>>))
  /\ parser_config' = IF json_ok THEN "cfg" ELSE ""
  /\ html_content' = ""
  /\ fetching' = 0
  /\ prev_memory' = memory
  /\ prev_state' = current_state
  /\ last_op' = "reopen"
  /\ UNCHANGED record
  /\ ReloadFrame

NextReload ==
  \/ \E ok \in BOOLEAN : SaveParser(ok)
  \/ \E json_ok \in BOOLEAN, url_given \in BOOLEAN : Reopen(json_ok, url_given)

SpecReload == InitReload /\ [][NextReload]_vars

(***************************************************************************)
(* Several sessions side by side.  Dictionaries and lists are objects of a *)
(* heap and a session holds references to them: an in-place update        *)
(* (self.memory[key] = value, list.append, dict.clear) changes the object, *)
(* an assignment (self.history = []) rebinds the reference to a new one.   *)
(***************************************************************************)
MaxSessions == 2   \* sessions alive at a time
MaxObjects == 8    \* objects ever allocated

\* the reference a display would give if it were evaluated once and shared,
\* as a class attribute or a mutable default argument is
new_object_shared(h, k) == k

\* the reference of the k-th object a constructor allocates: a {} or []
\* display evaluates to a new object each time it is executed
new_object(h, k) == Len(h) + k

\* the heap h with value v for reference ref
Put(h, ref, v) ==
  [k \in 1..(IF ref > Len(h) THEN ref ELSE Len(h)) |->
     IF k = ref THEN v ELSE h[k]]

SessionReplies ==
  { MemSet(<<Obj(UrlOnly)>>), StateTag(<<Txt(STATE_FETCHING_HTML)>>) }

SessionInputs == {<<Txt("q1")>>}

SessionFrame ==
  /\ UNCHANGED <<session, current_state, memory, memory_history, pc, reply,
                 content, has_memory_ops, resolved, outcome, ret, target,
                 prev_memory, prev_state>>
  /\ UNCHANGED <<chat_vars, dispatch_vars, service_vars, worker_vars, registry_vars, is_processing>>

InitSessions ==
  /\ session = Wrapper
  /\ current_state = ""
  /\ memory = EmptyDict
  /\ memory_history = <<>>
  /\ prev_memory = memory
  /\ prev_state = current_state
  /\ Quiet
  /\ NoChat /\ NoDispatch /\ NoSessions /\ NoService /\ NoWorker /\ NoRegistry /\ NoWidget

\* LLMWrapper.__init__ (history, memory_history, memory) and
\* ParserDesignerWindow.__init__ (chat_history, memory, memory_history;
\* saved is chat_data["memory"] of the record edited, decoded anew by
\* json.loads)
Construct(kind, saved) ==
  /\ Len(sessions) < MaxSessions
  /\ Len(heap) + 3 <= MaxObjects
  /\ kind = Wrapper => saved = EmptyDict
  /\ LET m  == new_object(heap, 1)
         h  == new_object(heap, 2)
         mh == new_object(heap, 3)
     IN  /\ heap' = Put(Put(Put(heap, m, saved), h, <<>>), mh, <<>>)
         /\ sessions' =
              Append(sessions,
                     [kind |-> kind, memory |-> m, history |-> h,
                      memory_history |-> mh,
                      current_state |-> IF kind = Window
                                        THEN STATE_WAITING_FOR_URL ELSE ""])
  /\ acted' = Len(sessions) + 1
  /\ last_op' = "construct"
  /\ SessionFrame

\* chat / send_message on session i: the user turn is appended to its
\* history
AddUserTurn(i, input) ==
  /\ i \in 1..Len(sessions)
  /\ Len(heap[sessions[i].history]) < MaxTurns
  /\ heap' = [heap EXCEPT ![sessions[i].history] =
                Append(@, Msg("user", input, <<>>))]
  /\ acted' = i
  /\ last_op' = "user_turn"
  /\ UNCHANGED sessions
  /\ SessionFrame

\* _process_memory_operations of session i on reply r
ProcessDirectives(i, r) ==
  /\ i \in 1..Len(sessions)
  /\ \E p \in { IF sessions[i].kind = Wrapper
                THEN WrapperProcess(r, heap[sessions[i].memory])
                ELSE WindowProcess(r, heap[sessions[i].memory],
                                   sessions[i].current_state) } :
       /\ p.outcome = "ok"
       /\ heap' = [heap EXCEPT
                     ![sessions[i].memory] = p.mem,
                     ![sessions[i].memory_history] =
                        IF Len(@) + Len(p.log) <= MaxTurns THEN @ \o p.log
                        ELSE @]
       /\ sessions' = [sessions EXCEPT ![i].current_state =
                         IF sessions[i].kind = Window THEN p.cur ELSE @]
  /\ acted' = i
  /\ last_op' = "process"
  /\ SessionFrame

\* LLMWrapper.clear_memory: self.memory.clear()
ClearMemory(i) ==
  /\ i \in 1..Len(sessions)
  /\ sessions[i].kind = Wrapper
  /\ heap' = [heap EXCEPT ![sessions[i].memory] = EmptyDict]
  /\ acted' = i
  /\ last_op' = "clear_memory"
  /\ UNCHANGED sessions
  /\ SessionFrame

\* LLMWrapper.clear_history: self.history = []; self.memory_history = [];
\* ChatHistory.clear of a window: self.messages.clear()
ClearHistory(i) ==
  /\ i \in 1..Len(sessions)
  /\ IF sessions[i].kind = Wrapper
     THEN /\ Len(heap) + 2 <= MaxObjects
          /\ LET h  == new_object(heap, 1)
                 mh == new_object(heap, 2)
             IN  /\ heap' = Put(Put(heap, h, <<>>), mh, <<>>)
                 /\ sessions' = [sessions EXCEPT ![i].history = h,
                                                 ![i].memory_history = mh]
     ELSE /\ heap' = [heap EXCEPT ![sessions[i].history] = <<>>]
          /\ UNCHANGED sessions
  /\ acted' = i
  /\ last_op' = "clear_history"
  /\ SessionFrame

\* ParserDesignerWindow._handle_state_transition(new_state) of window i
SessionTransition(i, new_state) ==
  /\ i \in 1..Len(sessions)
  /\ sessions[i].kind = Window
  /\ sessions' = [sessions EXCEPT ![i].current_state =
                    handle_state_transition(heap[sessions[i].memory],
                                            new_state).state]
  /\ acted' = i
  /\ last_op' = "transition"
  /\ UNCHANGED heap
  /\ SessionFrame

NextSessions ==
  \/ \E kind \in {Wrapper, Window}, saved \in SavedMemories :
       Construct(kind, saved)
  \/ \E i \in 1..Len(sessions), input \in SessionInputs : AddUserTurn(i, input)
  \/ \E i \in 1..Len(sessions), r \in SessionReplies : ProcessDirectives(i, r)
  \/ \E i \in 1..Len(sessions) : ClearMemory(i)
  \/ \E i \in 1..Len(sessions) : ClearHistory(i)
  \/ \E i \in 1..Len(sessions) :
       SessionTransition(i, STATE_FETCHING_HTML)

SpecSessions == InitSessions /\ [][NextSessions]_vars

(***************************************************************************)
(* The options of LLMWrapper.chat.  A function-schema list is "None", the  *)
(* empty list "[]" or a list of schemas named by a string; a model is      *)
(* "None" or its name; a flag is "None", "True" or "False".                *)
(***************************************************************************)
None == "None"
Bools == {"True", "False"}
SchemaLists == {None, "[]", "custom", "new"}
Models == {"test-model", "gpt-4"}

\* bool(x) of a schema list
Truthy(schemas) == schemas \notin {None, "[]"}

\* chat, lines 503-524: the values in effect and the schemas passed to
\* call_llm, from the stored defaults and the arguments of the call
chat_options(self, focus, enable, custom, model) ==
  LET use_focus_mode == IF focus = None THEN self.focus_mode ELSE focus
      use_enable_functions ==
        IF enable = None THEN self.enable_functions ELSE enable
      use_custom_schemas ==
        IF custom # None THEN custom ELSE self.custom_function_schemas
      use_model == IF model # None THEN model ELSE self.model
  IN  [focus_mode |-> use_focus_mode,
       enable_functions |-> use_enable_functions,
       custom_function_schemas |-> use_custom_schemas,
       model |-> use_model,
       function_schemas |->
         IF use_enable_functions = "True"
         THEN IF Truthy(use_custom_schemas) THEN use_custom_schemas
              ELSE "registered"
         ELSE None]

Defaults ==
  [focus_mode : Bools, enable_functions : Bools,
   custom_function_schemas : SchemaLists \ {"new"}, model : Models]

NoneGiven ==
  [focus_mode |-> None, enable_functions |-> None,
   custom_function_schemas |-> None, model |-> None]

OptionsFrame ==
  /\ UNCHANGED <<session, current_state, memory, memory_history, pc, reply,
                 content, has_memory_ops, resolved, outcome, ret, target,
                 prev_memory, prev_state>>
  /\ UNCHANGED <<chat_vars, dispatch_vars, sessions_vars, tool_vars,
                 worker_vars, registry_vars, is_processing>>

\* LLMWrapper.__init__
InitOptions ==
  /\ session = Wrapper
  /\ current_state = ""
  /\ memory = EmptyDict
  /\ memory_history = <<>>
  /\ prev_memory = memory
  /\ prev_state = current_state
  /\ Quiet
  /\ NoChat /\ NoDispatch /\ NoSessions /\ NoWorker /\ NoRegistry /\ NoWidget
  /\ html_content = "" /\ parser_config = "" /\ fetching = 0
  /\ record = <<>>
  /\ \E d \in Defaults :
       options = [self |-> d, given |-> NoneGiven,
                  used |-> chat_options(d, None, None, None, None)]

\* chat(user_input, focus_mode, stream, enable_functions,
\*      custom_function_schemas, model) up to its first call_llm
ChatOptions(focus, enable, custom, model) ==
  /\ options' =
       [self |-> options.self,
        given |-> [focus_mode |-> focus, enable_functions |-> enable,
                   custom_function_schemas |-> custom, model |-> model],
        used |-> chat_options(options.self, focus, enable, custom, model)]
  /\ last_op' = "chat"
  /\ OptionsFrame

\* set_focus_mode, set_enable_functions, set_custom_function_schemas,
\* set_model
SetDefaults(d) ==
  /\ \E f \in DOMAIN d : \A g \in DOMAIN d \ {f} : d[g] = options.self[g]
  /\ d # options.self
  /\ options' = [options EXCEPT !.self = d]
  /\ last_op' = "set"
  /\ OptionsFrame

NextOptions ==
  \/ \E focus \in Bools \cup {None}, enable \in Bools \cup {None},
        custom \in SchemaLists, model \in Models \cup {None} :
       ChatOptions(focus, enable, custom, model)
  \/ \E d \in Defaults : SetDefaults(d)

SpecOptions == InitOptions /\ [][NextOptions]_vars

(***************************************************************************)
(* Properties.                                                             *)
(***************************************************************************)
\* The table of section 4.4: the keys a state requires on entry.
RequiredBySpec(s) ==
  CASE s = "S1" -> {}
    [] s = "S2" -> {"url"}
    [] s = "S3" -> {"html"}
    [] s = "S4" -> {"title", "date", "body"}
    [] s = "S5" -> {"html", "title", "date", "body"}
    [] s = "S6" -> {"html", "parser_code"}
    [] s = "S7" -> {"parsing_result"}
    [] OTHER    -> {}

\* a text without tags and JSON literals
IsPlain(text) == \A i \in 1..Len(text) : text[i].kind \in {"txt", "ws", "nl"}

PlainReplies == {t \in Replies : IsPlain(t)}

\* m is old with the pairs of d merged in
IsMerge(m, old, d) ==
  /\ DOMAIN m = (DOMAIN old) \cup (DOMAIN d)
  /\ \A k \in DOMAIN d : m[k] = d[k]
  /\ \A k \in (DOMAIN old) \ (DOMAIN d) : m[k] = old[k]

Mentions(text, t) == \E i \in 1..Len(text) : text[i] = t

\* C1: _handle_state_transition(newState) sets the current state to newState
\* and returns true when newState is RECOVERY or all keys newState requires
\* are in memory; otherwise it sets the state to RECOVERY and returns false;
\* it never raises.
C1_TransitionRule ==
  last_op = "transition" =>
    /\ outcome = "ok"
    /\ IF target = "RECOVERY" \/ RequiredBySpec(target) \subseteq DOMAIN memory
       THEN current_state = target /\ ret = TRUE
       ELSE current_state = "RECOVERY" /\ ret = FALSE

\* C1 witness: a transition to S6 without its keys was redirected.
C1_Witness ==
  /\ last_op = "transition"
  /\ target = "S6"
  /\ "html" \in DOMAIN memory
  /\ "parser_code" \notin DOMAIN memory
  /\ current_state = "RECOVERY"
  /\ ret = FALSE

\* C2: in every reachable state of a parser-design session the current state
\* is one of the eight declared states.
C2_StateDeclared ==
  session = Window => current_state \in DeclaredStates

\* C3: a <state>X</state> tag with X different from the current state applies
\* the memory-prerequisite rule (RECOVERY when a key X requires is absent),
\* and the tag is replaced by the marker [State: X].
C3_StateTagValidated ==
  \A pre \in PlainReplies, post \in PlainReplies, X \in {"S3", "DONE"} :
    ( /\ session = Window
      /\ pc = "done"
      /\ reply = pre \o StateTag(<<Txt(X)>>) \o post
      /\ X # prev_state )
    => /\ content = pre \o <<StateMarker(X)>> \o post
       /\ IF RequiredBySpec(X) \subseteq DOMAIN memory
          THEN current_state = X
          ELSE current_state = "RECOVERY"

\* the keys a mem_get payload names
NamedKeys(payload) ==
  IF payload[1].kind = "arr"
  THEN {payload[1].ks[i] : i \in 1..Len(payload[1].ks)}
  ELSE {payload[1].s}

SetPayloads == {UrlOnly, UrlAndHtml}
GetPayloads == {<<Txt("url")>>, <<Arr(<<"url", "html">>)>>}

\* C4: after a mem_set with payload S, a following mem_get of the keys of S
\* resolves exactly the values stored by S.
C4_SetGetRoundTrip ==
  \A S \in SetPayloads, g \in GetPayloads :
    ( /\ session = Wrapper
      /\ pc = "done"
      /\ reply = MemSet(<<Obj(S)>>) \o MemGet(g)
      /\ NamedKeys(g) = DOMAIN S )
    => /\ outcome = "ok"
       /\ resolved = <<S>>

\* C4 witness: {"url": "v1"} was stored over an older url and read back.
C4_Witness ==
  /\ session = Wrapper
  /\ pc = "done"
  /\ reply = MemSet(<<Obj(UrlOnly)>>) \o MemGet(<<Txt("url")>>)
  /\ "url" \in DOMAIN prev_memory
  /\ prev_memory["url"] = "v2"
  /\ "html" \in DOMAIN prev_memory
  /\ resolved = <<UrlOnly>>

\* C5: a mem_get or mem_validate that names keys absent from memory is
\* processed without raising, the absent keys are reported as missing or
\* absent, and memory is unchanged.
C5_AbsentKeysReported ==
  /\ \A g \in GetPayloads :
       ( /\ pc = "done"
         /\ reply = MemGet(g)
         /\ NamedKeys(g) \cap DOMAIN prev_memory = {} )
       => /\ outcome = "ok"
          /\ memory = prev_memory
          /\ resolved = <<EmptyDict>>
  /\ \A pre \in PlainReplies, post \in PlainReplies :
       ( /\ session = Window
         /\ pc = "done"
         /\ reply = pre \o MemValidate(<<Arr(<<"url", "html">>)>>) \o post
         /\ {"url", "html"} \cap DOMAIN prev_memory = {} )
       => /\ outcome = "ok"
          /\ memory = prev_memory
          /\ Mentions(content, MissingMessage(<<"url", "html">>))

\* C6: a mem_validate directive with a list of keys is replaced by "Memory
\* validation passed" when every listed key is in memory and by "Missing
\* required memory: k1, k2" listing exactly the absent keys otherwise; the
\* surrounding text is preserved.
C6_ValidateMessage ==
  \A pre \in PlainReplies, post \in PlainReplies :
    ( /\ session = Window
      /\ pc = "done"
      /\ reply = pre \o MemValidate(<<Arr(<<"url", "html">>)>>) \o post )
    => LET missing == SelectSeq(<<"url", "html">>,
                                LAMBDA k : k \notin DOMAIN prev_memory)
       IN  content = pre
                     \o <<IF missing = <<>> THEN PassedMessage
                          ELSE MissingMessage(missing)>>
                     \o post

\* C7: running the wrapper's directive parser on the cleaned text it returned
\* reports no directive and returns that text unchanged.
C7_Idempotent ==
  ( /\ session = Wrapper
    /\ pc = "done"
    /\ outcome = "ok" )
  => LET again == WrapperProcess(content, memory)
     IN  /\ again.has = FALSE
         /\ again.text = content

\* C8 as stated: a well-formed mem_set is merged into memory, the cleaned
\* text is exactly the remaining text, and a directive is reported.
C8_SetExactRemainder ==
  \A pre \in PlainReplies, post \in PlainReplies, S \in SetPayloads :
    ( /\ pc = "done"
      /\ reply = pre \o MemSet(<<Obj(S)>>) \o post )
    => /\ outcome = "ok"
       /\ has_memory_ops = TRUE
       /\ IsMerge(memory, prev_memory, S)
       /\ content = pre \o post

\* C8 amended: a well-formed mem_set is merged into memory (its keys
\* overwritten, the others untouched) and a directive is reported; the
\* cleaned text is the remaining text in the parser-design window, and the
\* remaining text without blank lines and without leading and trailing
\* whitespace in the wrapper.
C8_SetMerged ==
  \A pre \in PlainReplies, post \in PlainReplies, S \in SetPayloads :
    ( /\ pc = "done"
      /\ reply = pre \o MemSet(<<Obj(S)>>) \o post )
    => /\ outcome = "ok"
       /\ has_memory_ops = TRUE
       /\ IsMerge(memory, prev_memory, S)
       /\ content = IF session = Wrapper THEN CleanLines(pre \o post)
                    ELSE pre \o post

\* C8 witness: a mem_set over an existing url, followed by text.
C8_Witness ==
  /\ pc = "done"
  /\ reply = MemSet(<<Obj(UrlOnly)>>) \o <<Txt("hi")>>
  /\ "url" \in DOMAIN prev_memory
  /\ prev_memory["url"] # "v1"
  /\ memory["url"] = "v1"
  /\ content = <<Txt("hi")>>

\* C9: a mem_set whose payload is unparseable text or JSON that is not an
\* object never raises out of the directive parser; memory is unchanged.
C9_BadSetSkipped ==
  \A pre \in PlainReplies, post \in PlainReplies,
     bad \in {Txt("oops"), Num("42")} :
    ( /\ pc \in {"done", "hung"}
      /\ last_op = "process"
      /\ reply = pre \o MemSet(<<bad>>) \o post )
    => /\ outcome = "ok"
       /\ memory = prev_memory

\* the text shows the value v
Surfaces(text, v) ==
  \E i \in 1..Len(text) :
    \/ text[i] = Txt(v)
    \/ text[i].kind = "obj" /\ \E k \in DOMAIN text[i].d : text[i].d[k] = v

IsTail(t, l) ==
  /\ Len(t) <= Len(l)
  /\ \A i \in 1..Len(t) : t[i] = l[Len(l) - Len(t) + i]

C20_SystemFirstUserLast ==
  last_op = "prepare" =>
    LET n == Len(messages)
        fixed == 1 + (IF memory # EmptyDict THEN 1 ELSE 0) + Len(memory_history)
    IN  /\ n >= 2
        /\ messages[1] = Msg("system", system_prompt, <<>>)
        /\ messages[n] = Msg("user", user_content(user_input, focus_mode),
                             <<memory>>)
        /\ n - 1 >= fixed
        /\ IsTail(SubSeq(messages, fixed + 1, n - 1), WithStates(history))
        /\ (history = <<>> /\ memory = EmptyDict) => n = 2

\* a budget too small for the whole history: part of it is dropped, the
\* system prompt and the user turn are there
C20_Witness ==
  /\ last_op = "prepare"
  /\ Len(history) = 2
  /\ Len(messages) = 3
  /\ messages[2] = WithState(history[2])
  /\ messages[3].role = "user"

(***************************************************************************)
(* C17: executing a function name that is not registered returns the error *)
(* object {"error": "Unknown function: <name>"}, does not raise, runs no   *)
(* execute body and leaves the registry unchanged.                         *)
(***************************************************************************)
ManagerCall == last_op \in {"execute_function", "execute_tool_call"}

C17_UnknownFunction ==
  (ManagerCall /\ fn_name \notin functions) =>
    /\ fn_result = Error(<<"Unknown function:", fn_name>>)
    /\ outcome = "ok"
    /\ executed = {}

(***************************************************************************)
(* C18: for every registered function, when the arguments do not fit the   *)
(* function's declared parameter shape the execute body is not run, an     *)
(* {"error": message} result is returned and nothing is raised.            *)
(***************************************************************************)
\* the declared parameter shape, read off the class declarations
DeclaredRequired ==
  [name \in FunctionClasses |->
     CASE name = "fetch_webpage"     -> {"url"}
       [] name = "get_weather"       -> {"location"}
       [] name = "parse_webpage"     -> {"url", "state", "action"}
       [] name = "parse_with_parser" -> {"url", "parser_config"}
       [] name = "test_function"     -> {"message"}]

DeclaredKind(name, f) ==
  IF f = "parser_config" THEN "dict"
  ELSE IF name = "test_function" /\ f = "repeat" THEN "int" ELSE "str"

DeclaredFields ==
  [name \in FunctionClasses |->
     CASE name = "fetch_webpage"     -> {"url"}
       [] name = "get_weather"       -> {"location", "unit"}
       [] name = "parse_webpage"     -> {"url", "state", "action",
                                         "parser_config"}
       [] name = "parse_with_parser" -> {"url", "parser_config"}
       [] name = "test_function"     -> {"message", "repeat", "prefix"}]

FitsShape(name, args) ==
  /\ DeclaredRequired[name] \subseteq DOMAIN args
  /\ \A f \in DOMAIN args \cap DeclaredFields[name] :
       args[f] = DeclaredKind(name, f)

C18_InvalidArgumentsRejected ==
  (ManagerCall /\ fn_name \in functions /\ ~FitsShape(fn_name, fn_args)) =>
    /\ executed = {}
    /\ fn_result.kind = "error"
    /\ outcome = "ok"

\* parse_webpage called without its action
C18_Witness ==
  /\ last_op = "execute_function"
  /\ fn_name = "parse_webpage"
  /\ fn_args = Args({"url", "state"}, "str")
  /\ fn_result.kind = "error"
  /\ executed = {}

(***************************************************************************)
(* LLMWrapper.chat, claims C11 to C14.                                     *)
(***************************************************************************)
\* text holds an opening mem_set or mem_get tag with its closing tag after it
HasDirective(text) ==
  \E i \in 1..Len(text), j \in 1..Len(text) :
    /\ i < j
    /\ \/ text[i] = Tag("<mem_set>") /\ text[j] = Tag("</mem_set>")
       \/ text[i] = Tag("<mem_get>") /\ text[j] = Tag("</mem_get>")

\* the first reply of the turn has just been handled
FirstHandled ==
  /\ session = Wrapper
  /\ last_op = "process"
  /\ Len(calls) = 1 \/ pc = "call2"

\* C11: the first call of a chat turn is not streamed whatever the caller
\* asked for; the turn makes one call when the first reply holds no
\* directive and two when it does, the second with the caller's stream
\* option; a call that raises is not retried and the exception reaches the
\* caller.
C11_CallsPerTurn ==
  session = Wrapper =>
    /\ calls # <<>> => calls[1] = FALSE
    /\ Len(calls) <= 2
    /\ Len(calls) = 2 => calls[2] = stream
    /\ FirstHandled => Len(calls) = (IF HasDirective(reply) THEN 2 ELSE 1)
    /\ last_op = "call_raised" => (outcome = "raised" /\ pc = "done")

\* the result of a chat call that returned is well formed for the caller's
\* stream option
WellFormed(result, streamed) ==
  IF streamed
  THEN /\ result # <<>>
       /\ result[Len(result)] = "final"
       /\ \A i \in 1..(Len(result) - 1) : result[i] = "fragment"
  ELSE result = <<"object">>

\* C12: with stream=True the result of chat is a sequence of fragments ended
\* by one final reply object, without it a single reply object, whether or
\* not the first reply held directives.
C12_ResultShape ==
  (session = Wrapper /\ pc = "done" /\ outcome = "ok") =>
    WellFormed(delivered, stream)

\* C13: while the fragments of a streamed reply are delivered neither the
\* memory store nor the current state changes; they change only when a
\* complete reply is processed (or, in the window, when a tool runs).
C13_OnlyCompleteReplies ==
  [][ /\ last_op' = "chunk" =>
           /\ memory' = memory
           /\ current_state' = current_state
      /\ (memory' # memory \/ current_state' # current_state) =>
           /\ last_op' \in {"process", "function_call"}
           /\ (session = Wrapper /\ pc = "streaming") =>
                (chunks = reply /\ delivered'[Len(delivered')] = "final")
    ]_vars

\* C13 witness: the fragments received so far make up a whole mem_set
\* directive, more of the reply is to come, and the store is still empty
C13_Witness ==
  /\ session = Wrapper
  /\ pc = "streaming"
  /\ last_op = "chunk"
  /\ chunks = MemSet(<<Obj(UrlOnly)>>)
  /\ Len(chunks) < Len(reply)
  /\ memory = EmptyDict

\* C14: after a call_llm that raised, in the first or the second call, the
\* history and the memory store are what they were before chat was called.
C14_FailureRestores ==
  (session = Wrapper /\ last_op = "call_raised") =>
    /\ history = prev_history
    /\ memory = prev_memory

(***************************************************************************)
(* The window's tool-call loop, claims C15 and C16.                        *)
(***************************************************************************)
\* a tool call of reply number id has not been dispatched yet
PendingToolCall(id) ==
  \E i \in 1..Len(threads) : \E k \in 1..Len(threads[i]) :
    /\ threads[i][k].sig = "function_call"
    /\ threads[i][k].from = id

\* C15: the LLM is called again only when every tool call of the reply has
\* been dispatched and its result appended to the history.
C15_ResultsBeforeFollowUp ==
  (session = Window /\ last_op = "function_call") => ~PendingToolCall(origin)

\* C16: the tool dispatches of one user turn, each followed by a new call of
\* the LLM, stay below a fixed bound.
C16_RoundTripsBounded ==
  session = Window => round_trips < MaxRoundTrips

(***************************************************************************)
(* Sessions side by side, claim C19.                                       *)
(***************************************************************************)
\* what session i of ss holds: its memory store, its history, its log of
\* memory operations and its current state
View(h, ss, i) ==
  [memory |-> h[ss[i].memory],
   history |-> h[ss[i].history],
   memory_history |-> h[ss[i].memory_history],
   current_state |-> ss[i].current_state]

\* C19: an operation on one session (construction, chat, directive
\* processing, state transition, clear) changes neither the memory store
\* nor the history nor the current state of any other session.
C19_SessionsIndependent ==
  [][ \A i \in 1..Len(sessions) :
        i # acted' => View(heap', sessions', i) = View(heap, sessions, i)
    ]_vars

\* C19 witness: session 1 has just stored a URL while session 2, a window
\* with a user turn that was refused state S2, still has its empty store
C19_Witness ==
  /\ Len(sessions) = 2
  /\ acted = 1
  /\ last_op = "process"
  /\ View(heap, sessions, 1).memory = UrlOnly
  /\ sessions[2].kind = Window
  /\ View(heap, sessions, 2).memory = EmptyDict
  /\ View(heap, sessions, 2).history # <<>>
  /\ View(heap, sessions, 2).current_state = STATE_RECOVERY

(***************************************************************************)
(* LLMWrapper._prepare_messages, claims C21 and C22.                       *)
(***************************************************************************)
\* the messages that precede the history window: system prompt, memory
\* block, memory-operation log
FixedPart == 1 + (IF memory # EmptyDict THEN 1 ELSE 0) + Len(memory_history)

\* the part of the history that _prepare_messages selected
SelectedWindow == SubSeq(messages, FixedPart + 1, Len(messages) - 1)

SentUserTurn == messages[Len(messages)]

\* C22: with focus mode the user turn sent to the LLM is a JSON object whose
\* user_input is the text typed and which has an instructions field;
\* without it the content is the text typed; the entry that chat records in
\* the history holds the text typed in both cases.
C22_FocusWrapping ==
  (session = Wrapper /\ pc \in {"call1", "call2"}) =>
    /\ SentUserTurn.role = "user"
    /\ IF focus_mode
       THEN LET js == JsonLoads(SentUserTurn.content)
            IN  /\ js.ok
                /\ js.val.kind = "obj"
                /\ DOMAIN js.val.d = {"user_input", "instructions"}
                /\ js.val.d["user_input"] = Name(user_input)
       ELSE SentUserTurn.content = user_input
    /\ Len(history) > Len(prev_history)
    /\ history[Len(prev_history) + 1].role = "user"
    /\ history[Len(prev_history) + 1].content = user_input

\* C22 witness: the second call of a turn in focus mode is being made for
\* the input q2
C22_Witness ==
  /\ session = Wrapper
  /\ pc = "call2"
  /\ focus_mode
  /\ user_input = <<Txt("q2")>>

(***************************************************************************)
(* The options of a chat call, claim C23.                                  *)
(***************************************************************************)
\* the per-call value when one is given, the stored default otherwise
InEffect(field) ==
  IF options.given[field] # None THEN options.given[field]
  ELSE options.self[field]

\* C23: focus mode, enable-functions, custom schemas and model of a chat
\* call are the per-call value when one is given and the constructor value
\* otherwise, the stored defaults are left alone, and the schemas passed to
\* the LLM are none when functions are disabled, the custom schemas when
\* they are provided and the registered schemas otherwise.
C23_OptionsInEffect ==
  last_op = "chat" =>
    /\ \A f \in DOMAIN options.self : options.used[f] = InEffect(f)
    /\ options.used.function_schemas =
         IF InEffect("enable_functions") = "False" THEN None
         ELSE IF InEffect("custom_function_schemas") # None
              THEN InEffect("custom_function_schemas")
              ELSE "registered"

\* C24: after the recover action of parse_webpage, dispatched in RECOVERY,
\* the current state is the resume target chosen by the first memory key
\* present in the order parsing_result, parser_code, title, html, url, and
\* WAITING_FOR_URL when none is.
C24_ResumeTarget ==
  (/\ last_op = "function_call"
   /\ fn_name = "parse_webpage"
   /\ "parse_webpage" \in executed
   /\ fn_args["action"] = "recover"
   /\ prev_state = STATE_RECOVERY)
  => current_state = resume_target(prev_memory)

\* C25: a session reopened from a record starts with the state and the
\* memory entries that were saved into the record's chat_data, and in
\* WAITING_FOR_URL when the record holds no saved state.  (The entries url,
\* parser_code and parser_type are compared by presence only: the record's
\* own columns are loaded over them.)
C25_ReloadRoundTrip ==
  last_op = "reopen" =>
    LET chat_data == record[1]
    IN  IF "state" \in DOMAIN chat_data
        THEN /\ current_state = chat_data.state
             /\ \A k \in DOMAIN chat_data.memory :
                  /\ k \in DOMAIN memory
                  /\ k \notin DOMAIN ParserData
                       => memory[k] = chat_data.memory[k]
        ELSE current_state = STATE_WAITING_FOR_URL

\* the calls of the window whose reply has not been delivered completely
InFlight ==
  { i \in 1..Len(threads) :
      \E k \in 1..Len(threads[i]) : threads[i][k].sig # "finished" }

\* C26: a session is one sequential conversation: at most one LLM call of
\* the window is in flight at any time, also when a reply carries several
\* tool calls or a page fetch completes.
C26_OneCallInFlight == session = Window => Cardinality(InFlight) <= 1

\* the memory store as the final pass of the directive parser found it: the
\* store of the turn's start, or what the first reply's directives left
BeforeFinalPass ==
  IF Len(calls) = 2
  THEN LET logged == {i \in 1..Len(memory_history) :
                        memory_history[i].role = "user"}
           last == CHOOSE i \in logged : \A j \in logged : j <= i
       IN  memory_history[last].memory_state[1]
  ELSE prev_memory

\* C27: a chat turn that completes has appended exactly two entries to the
\* history: the user entry with the text typed, then the assistant entry
\* with the user-facing reply as the directive parser left it, which is also
\* the content of the reply returned.
C27_TurnAppendsTwo ==
  (session = Wrapper /\ pc = "done" /\ outcome = "ok") =>
    /\ Len(history) = Len(prev_history) + 2
    /\ SubSeq(history, 1, Len(prev_history)) = prev_history
    /\ history[Len(history) - 1].role = "user"
    /\ history[Len(history) - 1].content = user_input
    /\ history[Len(history)].role = "assistant"
    /\ history[Len(history)].content = content
    /\ content = WrapperProcess(reply, BeforeFinalPass).text

\* C27 witness: a streamed second reply that held a directive has been
\* delivered, so the entry recorded differs from the text the LLM wrote
C27_Witness ==
  /\ session = Wrapper
  /\ pc = "done"
  /\ outcome = "ok"
  /\ stream
  /\ Len(calls) = 2
  /\ delivered[Len(delivered)] = "final"
  /\ content # reply

\* C28: every call of the transition operation, accepted or redirected to
\* RECOVERY, appends one state_change entry with the resulting state to the
\* memory operation log.
C28_TransitionLogged ==
  last_op = "transition" =>
    /\ memory_history # <<>>
    /\ memory_history[Len(memory_history)] = StateChangeEntry(current_state)

\* the set entries of the first n entries of log, applied in order to mem
RECURSIVE LogFold(_, _, _)
LogFold(log, n, mem) ==
  IF n = 0 THEN mem
  ELSE LET before == LogFold(log, n - 1, mem)
       IN  IF log[n].kind = "set" THEN DictUpdate(before, log[n].d)
           ELSE before

\* C29: every change of the window's memory store, by a mem_set directive
\* or by a function acting on a tool call, appends one "set" entry with its
\* payload to the memory operation log, so the store after a step is the
\* set entries the step appended, applied in order to the store before it.
C29_MemoryIsLogFold ==
  [][ (session = Window /\ memory' # memory) =>
        /\ Len(memory_history') > Len(memory_history)
        /\ LET new == SubSeq(memory_history', Len(memory_history) + 1,
                             Len(memory_history'))
           IN  memory' = LogFold(new, Len(new), memory)
    ]_vars

\* what call number id has emitted so far, in order
EmittedBy(id) == SelectSeq(emitted, LAMBDA e : e.from = id)

Rank(sig) ==
  CASE sig = "chunk" -> 1
    [] sig = "response" -> 2
    [] sig = "function_call" -> 3
    [] sig = "error" -> 4
    [] sig = "finished" -> 5

Count(seq, sig) == Cardinality({a \in 1..Len(seq) : seq[a].sig = sig})

\* call number id has run to its end
Ended(id) ==
  /\ id \in 1..Len(calls)
  /\ \A i \in 1..Len(threads) : Head(threads[i]).from # id

\* the emissions of call id are in order: the chunks as generated, then the
\* one response, then the tool calls of the reply, an error only before
\* finished, and finished once and last
SignalsOrdered(id) ==
  LET e == EmittedBy(id)
      chunk == SelectSeq(e, LAMBDA x : x.sig = "chunk")
      tool == SelectSeq(e, LAMBDA x : x.sig = "function_call")
  IN  /\ \A a \in 1..Len(e) : \A b \in 1..Len(e) :
           a < b => Rank(e[a].sig) <= Rank(e[b].sig)
      /\ Count(e, "response") <= 1
      /\ Count(e, "finished") <= 1
      /\ Len(chunk) <= Len(calls[id].content)
      /\ \A a \in 1..Len(chunk) : chunk[a].text = <<calls[id].content[a]>>
      /\ Count(e, "response") = 1 => Len(chunk) = Len(calls[id].content)
      /\ Len(tool) <= Len(calls[id].tool_calls)
      /\ \A a \in 1..Len(tool) : tool[a].name = calls[id].tool_calls[a].name
      /\ Ended(id) =>
           /\ Count(e, "finished") = 1
           /\ Count(e, "response") + Count(e, "error") = 1
           /\ Count(e, "response") = 1 =>
                Len(tool) = Len(calls[id].tool_calls)

\* C30: the signals of every streaming call_llm invocation are ordered
\* (chunks in generation order, then the one response, then its tool calls,
\* finished once and last, error then finished when the stream raises), and
\* is_running is false once finished has been emitted.
C30_SignalsOrdered ==
  /\ \A id \in 1..Len(calls) : SignalsOrdered(id)
  /\ last_op = "finished" => ~is_running

\* the memory-context blocks among the messages of a request
ContextBlocks ==
  { i \in 1..Len(messages) :
      /\ messages[i].role = "system"
      /\ Len(messages[i].content) > 1
      /\ messages[i].content[2] = Tag("<mem>") }

\* C31: the messages of the second LLM call of a turn are built after the
\* directives of the first reply were applied: the memory-context block and
\* the memory_state of the user turn show the updated store.
C31_SecondCallSeesUpdate ==
  (session = Wrapper /\ pc = "call2") =>
    /\ memory = WrapperProcess(reply, prev_memory).mem
    /\ messages[Len(messages)].role = "user"
    /\ messages[Len(messages)].memory_state = <<memory>>
    /\ IF memory = EmptyDict THEN ContextBlocks = {}
       ELSE /\ ContextBlocks = {2}
            /\ messages[2] = memory_context(memory)

\* C31 witness: the first reply stored a url in the empty store and the
\* second call is about to be made
C31_Witness ==
  /\ session = Wrapper
  /\ pc = "call2"
  /\ prev_memory = EmptyDict
  /\ memory = UrlOnly
  /\ messages[2] = memory_context(UrlOnly)

\* remaining_tokens as _prepare_messages computes it (lines 408-412)
RemainingBudget ==
  Min(max_history_tokens,
      max_tokens - count_tokens(SubSeq(messages, 1, FixedPart))
        - reserved_tokens)

\* C32: the history that _prepare_messages includes is a contiguous suffix
\* of the stored history in its order, and it is the whole history when the
\* whole history fits the remaining budget.
C32_SuffixOfHistory ==
  last_op = "prepare" =>
    LET k == Len(SelectedWindow)
    IN  /\ k <= Len(history)
        /\ SelectedWindow =
             WithStates(SubSeq(history, Len(history) - k + 1, Len(history)))
        /\ count_tokens(history) <= RemainingBudget => k = Len(history)

(***************************************************************************)
(* The class-level function registry: FunctionManager._functions maps a    *)
(* name to the class registered last under it, and _initialized says that  *)
(* a discovery has run to its end.                                         *)
(***************************************************************************)
\* the register calls of one behaviour
MaxRegistrations == 8

Class(name, cls) == [name |-> name, cls |-> cls]

\* the Function subclasses discovery finds, in the order of
\* pkgutil.iter_modules (template is excluded)
PackageClasses ==
  << Class("fetch_webpage", "FetchWebpage"),
     Class("get_weather", "GetWeather"),
     Class("parse_webpage", "ParseWebpage"),
     Class("parse_with_parser", "ParseWithParser"),
     Class("test_function", "TestFunction") >>

\* classes that callers register themselves: one under a name of the
\* package, one under a name of its own
OutsideClasses ==
  { Class("get_weather", "OtherWeather"), Class("custom", "Custom") }

\* FunctionManager.register: cls._functions[function_name] = function_class
register(reg, c) ==
  [n \in DOMAIN reg \cup {c.name} |-> IF n = c.name THEN c.cls ELSE reg[n]]

RECURSIVE register_all(_, _)
register_all(reg, classes) ==
  IF classes = <<>> THEN reg
  ELSE register_all(register(reg, Head(classes)), Tail(classes))

\* the body of discover_functions after its guard: the modules are imported
\* and their classes registered one after the other; imported is the
\* number of modules that import before one raises, and _initialized is set
\* only when none does
import_and_register(reg, log, imported) ==
  [registered |-> register_all(reg, SubSeq(PackageClasses, 1, imported)),
   initialized |-> imported = Len(PackageClasses),
   registrations |-> log \o SubSeq(PackageClasses, 1, imported)]

\* discover_functions without its guard
discover_functions_again(reg, init, log, imported) == import_and_register(reg, log, imported)

\* FunctionManager.discover_functions
discover_functions(reg, init, log, imported) == IF init THEN [registered |-> reg, initialized |-> init, registrations |-> log] ELSE import_and_register(reg, log, imported)

RegistryFrame ==
  /\ UNCHANGED <<session, current_state, memory, memory_history, pc, reply,
                 content, has_memory_ops, resolved, outcome, ret, target,
                 prev_memory, prev_state>>
  /\ UNCHANGED <<chat_vars, dispatch_vars, sessions_vars, service_vars,
                 worker_vars, is_processing>>

Discovered(d, op) ==
  /\ Len(d.registrations) <= MaxRegistrations
  /\ registered' = d.registered
  /\ initialized' = d.initialized
  /\ registrations' = d.registrations
  /\ last_op' = op
  /\ RegistryFrame

\* FunctionManager.discover_functions(), called directly
CallDiscover(imported) ==
  Discovered(discover_functions(registered, initialized, registrations,
                                imported), "discover")

\* FunctionManager(**kwargs)
NewFunctionManager(imported) ==
  Discovered(IF ~initialized
             THEN discover_functions(registered, initialized, registrations,
                                     imported)
             ELSE [registered |-> registered, initialized |-> initialized,
                   registrations |-> registrations], "construct")

\* FunctionManager.get_all_schemas()
GetAllSchemas(imported) ==
  Discovered(IF ~initialized
             THEN discover_functions(registered, initialized, registrations,
                                     imported)
             ELSE [registered |-> registered, initialized |-> initialized,
                   registrations |-> registrations], "schemas")

\* FunctionManager.register(function_class), called by a caller
RegisterClass(c) ==
  /\ Len(registrations) < MaxRegistrations
  /\ registered' = register(registered, c)
  /\ registrations' = Append(registrations, c)
  /\ last_op' = "register"
  /\ UNCHANGED initialized
  /\ RegistryFrame

InitRegistry ==
  /\ session = Window
  /\ current_state = STATE_WAITING_FOR_URL
  /\ memory = EmptyDict
  /\ memory_history = <<>>
  /\ prev_memory = memory
  /\ prev_state = current_state
  /\ Quiet
  /\ NoChat /\ NoDispatch /\ NoSessions /\ NoService /\ NoWorker
  /\ NoRegistry /\ NoWidget

NextRegistry ==
  \/ \E imported \in 0..Len(PackageClasses) : CallDiscover(imported)
  \/ \E imported \in 0..Len(PackageClasses) : NewFunctionManager(imported)
  \/ \E imported \in 0..Len(PackageClasses) : GetAllSchemas(imported)
  \/ \E c \in OutsideClasses : RegisterClass(c)

SpecRegistry == InitRegistry /\ [][NextRegistry]_vars

\* the class of the last register call made under name n
LastRegistered(n) ==
  LET at == { i \in 1..Len(registrations) : registrations[i].name = n }
  IN  registrations[CHOOSE i \in at : \A j \in at : j <= i].cls

OneEntryPerName ==
  /\ DOMAIN registered = { registrations[i].name : i \in 1..Len(registrations) }
  /\ \A n \in DOMAIN registered : registered[n] = LastRegistered(n)

\* C33: once a discovery has succeeded, discover_functions, the construction
\* of a FunctionManager and get_all_schemas leave the name-to-function map as
\* it is, and the map always holds, for every name registered so far, exactly
\* the class registered last under that name.
C33_PopulatedOnce ==
  /\ []OneEntryPerName
  /\ [][(initialized /\ last_op' \in {"discover", "construct", "schemas"})
          => registered' = registered]_vars

\* a caller has replaced get_weather after the discovery, and a later
\* discover_functions call has left the replacement in place
C33_Witness ==
  /\ initialized
  /\ last_op = "discover"
  /\ "get_weather" \in DOMAIN registered
  /\ registered["get_weather"] = "OtherWeather"
  /\ "custom" \in DOMAIN registered

(***************************************************************************)
(* One LLMWrapper over several chats, with the calls that clear its        *)
(* history or its memory and the setters of its defaults in between.       *)
(***************************************************************************)
StoreReplies ==
  { <<Txt("hi")>>, MemSet(<<Obj(UrlOnly)>>) \o <<Txt("hi")>> }

StoreFrame ==
  /\ UNCHANGED <<session, current_state, pc, reply, content, has_memory_ops,
                 resolved, outcome, ret, target, prev_state>>
  /\ UNCHANGED <<prev_history, user_input, focus_mode, stream, calls,
                 delivered, chunks, messages, max_history_tokens, max_tokens,
                 threads, round_trips, origin>>
  /\ UNCHANGED <<dispatch_vars, sessions_vars, service_vars, worker_vars,
                 registry_vars, is_processing>>

\* clear_history that empties the visible history only
WrapperClearHistory_visible ==
  /\ session = Wrapper
  /\ pc = "idle"
  /\ history' = <<>>
  /\ last_op' = "clear_history"
  /\ UNCHANGED <<memory, memory_history, prev_memory>>
  /\ StoreFrame

\* LLMWrapper.clear_history: self.history = []; self.memory_history = []
WrapperClearHistory ==
  /\ session = Wrapper
  /\ pc = "idle"
  /\ history' = <<>>
  /\ memory_history' = <<>>
  /\ last_op' = "clear_history"
  /\ UNCHANGED <<memory, prev_memory>>
  /\ StoreFrame

\* LLMWrapper.clear_memory: self.memory.clear()
WrapperClearMemory ==
  /\ session = Wrapper
  /\ pc = "idle"
  /\ memory' = EmptyDict
  /\ last_op' = "clear_memory"
  /\ UNCHANGED <<history, memory_history, prev_memory>>
  /\ StoreFrame

\* LLMWrapper.__init__
InitStore ==
  /\ session = Wrapper
  /\ current_state = ""
  /\ history = <<>>
  /\ functions = {}
  /\ memory = EmptyDict
  /\ memory_history = <<>>
  /\ prev_memory = memory
  /\ prev_state = current_state
  /\ prev_history = history
  /\ Quiet
  /\ user_input = <<>> /\ focus_mode = FALSE /\ stream = FALSE
  /\ calls = <<>> /\ delivered = <<>> /\ chunks = <<>> /\ messages = <<>>
  /\ max_history_tokens = 4000 /\ max_tokens = 4000
  /\ threads = <<>> /\ round_trips = 0 /\ origin = 0
  /\ fn_name = "" /\ fn_args = <<>> /\ fn_result = <<>> /\ executed = {}
  /\ NoSessions /\ NoWorker /\ NoRegistry /\ NoWidget
  /\ html_content = "" /\ parser_config = "" /\ fetching = 0
  /\ record = <<>>
  /\ \E d \in Defaults :
       /\ d.custom_function_schemas = None /\ d.model = "gpt-4"
       /\ options = [self |-> d, given |-> NoneGiven,
                     used |-> chat_options(d, None, None, None, None)]

NextStore ==
  \/ \E input \in SessionInputs : Chat(input, FALSE, FALSE)
  \/ \E r \in StoreReplies : FirstReply(r)
  \/ CallRaises
  \/ \E r \in StoreReplies : SecondReply(r)
  \/ ChatReturn
  \/ WrapperClearHistory
  \/ WrapperClearMemory
  \/ \E d \in Defaults :
       /\ pc = "idle"
       /\ d.custom_function_schemas = None /\ d.model = "gpt-4"
       /\ SetDefaults(d)

SpecStore == InitStore /\ [][NextStore]_vars

\* C34: no operation of the wrapper other than clear_memory takes a key out
\* of the memory; clear_history empties the history and the memory-operation
\* history and leaves the memory as it is; clear_memory leaves both
\* histories as they are.
C34_MemoryKept ==
  [][session = Wrapper =>
       /\ last_op' # "clear_memory" =>
            DOMAIN memory \subseteq DOMAIN memory'
       /\ last_op' = "clear_history" =>
            /\ history' = <<>>
            /\ memory_history' = <<>>
            /\ memory' = memory
       /\ last_op' = "clear_memory" =>
            /\ history' = history
            /\ memory_history' = memory_history]_vars

\* the histories of a wrapper whose memory holds the url have been cleared
C34_Witness ==
  /\ session = Wrapper
  /\ last_op = "clear_history"
  /\ memory = UrlOnly
  /\ history = <<>>
  /\ memory_history = <<>>

\* C35: the directive parser ends on every reply text, also when a closing
\* tag stands before its opening tag: no call of _process_memory_operations
\* is left running in a loop that no longer shortens the text.
C35_ParserTerminates == pc # "hung" /\ outcome # "hang"

(***************************************************************************)
(* The workflow of a window opened for a url: _initialize_chat stores the  *)
(* url, moves to FETCHING_HTML and lets a timer send the first message;    *)
(* from there the LLM drives the session with parse_webpage calls and      *)
(* directives.  The user sends nothing.                                    *)
(***************************************************************************)
CodeOnly == [k \in {"parser_code"} |-> "v1"]

WorkflowReplies ==
  { LLMReply(<<>>, <<Recover>>),
    LLMReply(MemSet(<<Obj(CodeOnly)>>), <<Recover>>),
    LLMReply(StateTag(<<Txt(STATE_TESTING_PARSER)>>), <<>>) }

\* QTimer.singleShot(100, lambda: self.on_message_sent(parse_message)): the
\* slot runs once, on the message _initialize_chat has put into the history
InitialMessage(r, fails) ==
  /\ session = Window
  /\ pc = "idle"
  /\ calls = <<>>
  /\ threads = <<>>
  /\ LET first == on_message_sent(history, threads, <<>>, current_state,
                                  <<Txt("parse")>>, r, fails)
     IN  /\ history' = first.history
         /\ threads' = first.threads
         /\ calls' = first.calls
         /\ messages' = first.messages
  /\ round_trips' = 0
  /\ chunks' = <<>>
  /\ origin' = 0
  /\ reply' = <<>>
  /\ content' = <<>>
  /\ has_memory_ops' = FALSE
  /\ outcome' = "ok"
  /\ prev_memory' = memory
  /\ prev_state' = current_state
  /\ last_op' = "send"
  /\ is_processing' = after_call_llm(TRUE, fails)
  /\ WindowRest /\ Untouched /\ NoDispatchNow

\* ParserDesignerWindow.__init__ and _initialize_chat with a url and no
\* parser record
InitWorkflow ==
  /\ session = Window
  /\ \E start \in {WindowConstruct(FALSE, EmptyDict, STATE_WAITING_FOR_URL,
                                   TRUE, TRUE, FALSE)} :
       /\ current_state = start.state
       /\ memory = start.memory
  /\ history = <<Msg("system", system_prompt, <<>>),
                 Msg("assistant", <<Txt("welcome")>>, <<>>),
                 Msg("user", <<Txt("parse")>>, <<>>)>>
  /\ parser_config = ""
  /\ functions = FunctionClasses
  /\ memory_history = <<>>
  /\ prev_memory = memory
  /\ prev_state = current_state
  /\ prev_history = history
  /\ Quiet
  /\ user_input = <<>> /\ focus_mode = FALSE /\ stream = FALSE
  /\ calls = <<>> /\ delivered = <<>> /\ chunks = <<>> /\ messages = <<>>
  /\ max_history_tokens = 4000 /\ max_tokens = 4000
  /\ threads = <<>> /\ round_trips = 0 /\ origin = 0
  /\ fn_name = "" /\ fn_args = <<>> /\ fn_result = <<>> /\ executed = {}
  /\ NoSessions
  /\ options = <<>> /\ html_content = "" /\ fetching = 0 /\ record = <<>>
  /\ NoWorker /\ NoRegistry /\ NoWidget

NextWorkflow ==
  \/ \E r \in WorkflowReplies, fails \in BOOLEAN : InitialMessage(r, fails)
  \/ \E i \in 1..Len(threads) : StreamFails(i)
  \/ \E i \in 1..Len(threads) : OnLLMChunk(i)
  \/ \E i \in 1..Len(threads) : OnResponseReceived(i)
  \/ \E i \in 1..Len(threads), r \in WorkflowReplies, fails \in BOOLEAN,
        ok \in BOOLEAN :
       OnFunctionCall(i, r, fails, ok)
  \/ \E i \in 1..Len(threads) : OnLLMError(i)
  \/ \E i \in 1..Len(threads) : OnLLMFinished(i)

SpecWorkflow == InitWorkflow /\ [][NextWorkflow]_vars

\* no <state> directive has changed the state so far
NoStateDirective ==
  \A i \in 1..Len(memory_history) : memory_history[i].kind # "state_change"

IntendedTarget(state, action, mem) ==
  CASE state = STATE_WAITING_FOR_URL -> STATE_FETCHING_HTML
    [] state = STATE_CONFIRMING_EXTRACTION /\ action = "confirm" ->
         STATE_CREATING_PARSER
    [] state = STATE_CREATING_PARSER /\ action = "create" ->
         STATE_TESTING_PARSER
    [] state = STATE_TESTING_PARSER /\ action = "test" ->
         STATE_FINAL_CONFIRMATION
    [] state = STATE_FINAL_CONFIRMATION /\ action = "modify" ->
         STATE_CREATING_PARSER
    [] state = STATE_RECOVERY /\ action = "recover" -> resume_target(mem)
    [] OTHER -> ""

\* C40: when parse_webpage returns a success result for an action that
\* advances the workflow, the session is afterwards in the state the action
\* leads to, and not in RECOVERY.
C40_SuccessReachesTarget ==
  ( /\ session = Window
    /\ last_op = "function_call"
    /\ fn_name = "parse_webpage"
    /\ fn_result.kind = "result"
    /\ "action" \in DOMAIN fn_args
    /\ IntendedTarget(prev_state, fn_args["action"], prev_memory) # "" ) =>
  /\ current_state = IntendedTarget(prev_state, fn_args["action"], prev_memory)
  /\ current_state # STATE_RECOVERY

\* the messages of the request, before its final turn, that repeat the
\* user's input
RepeatedInput ==
  { i \in 1..(Len(messages) - 1) :
      messages[i].role = "user" /\ messages[i].content = user_input }

\* C37: in every request chat sends, the user's input is there exactly once,
\* as the final user turn, and not again among the messages before it.
C37_InputOnce ==
  (session = Wrapper /\ pc \in {"call1", "call2"}) =>
    /\ messages # <<>>
    /\ messages[Len(messages)].role = "user"
    /\ messages[Len(messages)].content = user_content(user_input, focus_mode)
    /\ RepeatedInput = {}

\* the user entries the last send_message has added to the chat history
SentEntries ==
  { i \in (Len(prev_history) + 1)..Len(history) : history[i].role = "user" }

\* C38: a message the user sends in the parser-design window runs
\* on_message_sent once: one user entry is added to the chat history for it
\* and one LLM call is started.
C38_OneSendOneCall ==
  (session = Window /\ last_op = "send" /\ prev_history # <<>>) =>
    /\ Len(calls) = 1
    /\ Cardinality(SentEntries) = 1

\* C39: the chat input is disabled for as long as a call of the session is
\* in flight, follow-up calls included.
C39_DisabledWhileInFlight ==
  (session = Window /\ InFlight # {}) => is_processing

====
